---- MODULE Spec2Model ----
(***************************************************************************)
(* Model of the MCQ seeding scripts: the ORM based importer                *)
(* (temp_scripts/importMCQ.ts: processModuleTopic, clearQuestionsForTopic, *)
(* importQuestionsForTopic) and the SQL based importer                     *)
(* (scripts/import-module.js: importQuestions), run against one store of   *)
(* questions, options and attempts.  Every store call is one step and may  *)
(* end with a store error.                                                 *)
(***************************************************************************)
EXTENDS Integers, Sequences, FiniteSets, TLC

VARIABLES questions, options, attempts, nextQid, nextOid, fileData, attemptsFk, batchSizeOf,
          proc, runs, hist, dataCache, loaderCalls

vars ==
    <<questions, options, attempts, nextQid, nextOid, fileData, attemptsFk, batchSizeOf, proc,
      runs, hist, dataCache, loaderCalls>>

store == <<questions, options, attempts, nextQid, nextOid>>

\* what the asset loader of the web client leaves alone
assets == <<fileData, attemptsFk, batchSizeOf>>

\* what no script changes: the source files, the schema, the batch sizes and
\* the cache of the web client's loader
env == <<fileData, attemptsFk, batchSizeOf, dataCache, loaderCalls>>

(***************************************************************************)
(* Bounds of the model.                                                    *)
(***************************************************************************)
\* longest candidate list read from a source file
MaxLen == 2
\* number of reseeds one behaviour runs one after the other
MaxRuns == 2

(***************************************************************************)
(* Program constants.                                                      *)
(***************************************************************************)
\* importMCQ.ts: const batchSize = 5
McqBatchSize == 5
\* import-module.js: importQuestions(..., batchSize = 10)
DefaultBatchSize == 10

(***************************************************************************)
(* Candidate records (the question payloads of a source file).  A JS       *)
(* record is kept as: question ("" when empty or missing), isArray         *)
(* (Array.isArray(options)), options, hasIndex (correctIndex !==           *)
(* undefined) and correctIndex, a 0-based position.                        *)
(***************************************************************************)
Cand(q, a, o, h, x) ==
    [question |-> q, isArray |-> a, options |-> o, hasIndex |-> h, correctIndex |-> x]

cGood3 == Cand("Q1", TRUE, <<"A", "B", "C">>, TRUE, 1)
cGood2 == Cand("Q2", TRUE, <<"A", "B">>, TRUE, 0)
cEmptyOptions == Cand("Q3", TRUE, <<>>, TRUE, 0)
cIndexTooBig == Cand("Q4", TRUE, <<"A", "B">>, TRUE, 2)
cIndexNegative == Cand("Q5", TRUE, <<"A", "B">>, TRUE, -1)
cNoText == Cand("", TRUE, <<"A", "B">>, TRUE, 0)
cNoIndex == Cand("Q6", TRUE, <<"A", "B">>, FALSE, 0)
cNotArray == Cand("Q7", FALSE, <<>>, TRUE, 0)

Candidates ==
    {cGood3, cGood2, cEmptyOptions, cIndexTooBig, cIndexNegative, cNoText, cNoIndex, cNotArray}

CandidateLists == UNION {[1..n -> Candidates] : n \in 0..MaxLen}

(***************************************************************************)
(* The configured partitions.                                              *)
(***************************************************************************)
Cfg(m, t, f) == [moduleId |-> m, topic |-> t, filename |-> f]

moduleConfig ==
    << Cfg("focs", "FOCS2", "focs2.js"), Cfg("focs", "FOCS3", "focs3.js"),
       Cfg("focs", "FOCS4", "focs4.js"), Cfg("focs", "FOCS5", "focs5.js"),
       Cfg("bcr", "BCR1", "bcr1.js"), Cfg("bcr", "BCR2", "bcr2.js"),
       Cfg("bcr", "BCR3", "bcr3.js"), Cfg("bcr", "BCR4", "bcr4.js"),
       Cfg("msk", "MSK1", "msk1.js"), Cfg("msk", "MSK2", "msk2.js"),
       Cfg("anatomy", "Anatomy", "anatomy.js") >>

\* the source files under attached_assets
Files == {moduleConfig[k].filename : k \in DOMAIN moduleConfig}

\* the batch sizes the scripts are written with
CodeBatchSizes == [importMCQ |-> McqBatchSize, importModule |-> DefaultBatchSize]

\* String.prototype.toUpperCase on the topic names the scripts handle
ToUpperCase(s) ==
    CASE s = "Anatomy" -> "ANATOMY"
      [] s = "anatomy" -> "ANATOMY"
      [] s = "focs2" -> "FOCS2"
      [] s = "focs3" -> "FOCS3"
      [] s = "focs4" -> "FOCS4"
      [] s = "focs5" -> "FOCS5"
      [] s = "bcr1" -> "BCR1"
      [] s = "bcr2" -> "BCR2"
      [] s = "bcr3" -> "BCR3"
      [] s = "bcr4" -> "BCR4"
      [] s = "msk1" -> "MSK1"
      [] s = "msk2" -> "MSK2"
      [] s = "focs" -> "FOCS"
      [] s = "js" -> "JS"
      [] s = "xyz" -> "XYZ"
      [] OTHER -> s

(***************************************************************************)
(* Store rows and queries.                                                 *)
(***************************************************************************)
QRow(id, m, t, x) == [id |-> id, moduleId |-> m, topic |-> t, text |-> x]

ORow(id, q, x, c) == [id |-> id, questionId |-> q, text |-> x, isCorrect |-> c]

ARow(id, q, o) == [id |-> id, questionId |-> q, selectedOptionId |-> o]

Ids(rows) == {r.id : r \in rows}

RECURSIVE SortedSeq(_)
SortedSeq(S) ==
    IF S = {} THEN <<>>
    ELSE LET m == CHOOSE x \in S : \A y \in S : x <= y
         IN  <<m>> \o SortedSeq(S \ {m})

(***************************************************************************)
(* Where clauses, selections and the content of a partition.               *)
(***************************************************************************)
\* a where clause that leaves the topic out
InPartitionModuleOnly(q, m, t) == q.moduleId = m

\* and(eq(questions.moduleId, moduleId), eq(questions.topic, topic))
InPartition(q, m, t) == q.moduleId = m /\ q.topic = t

\* a selection that finds no row
ExistingQuestionsNone(qs, m, t) == {}

\* a selection with no where clause
ExistingQuestionsAll(qs, m, t) == qs

\* the rows "select from questions where moduleId = m and topic = t" returns
ExistingQuestions(qs, m, t) == {q \in qs : InPartition(q, m, t)}

\* a query for the options of a question that finds none
OptionsOfNone(os, qid) == {}

\* the rows "where options.questionId = qid" matches
OptionsOf(os, qid) == {o \in os : o.questionId = qid}

\* the rows "where question_id IN (SELECT id FROM questions WHERE ...)" matches
OptionsOfPartition(qs, os, m, t) ==
    {o \in os : o.questionId \in Ids(ExistingQuestions(qs, m, t))}

\* Observation of the store, used to compare contents: the rows of a partition,
\* the options of a question, and a partition's content with the ids left out
\* (questions in id order, each with its options in id order).
PartitionQuestions(qs, m, t) == {r \in qs : r.moduleId = m /\ r.topic = t}

QuestionOptions(os, qid) == {r \in os : r.questionId = qid}

OptionContent(os, qid) ==
    LET ids == SortedSeq(Ids(QuestionOptions(os, qid)))
    IN  [k \in 1..Len(ids) |->
            LET o == CHOOSE r \in os : r.id = ids[k]
            IN  [text |-> o.text, isCorrect |-> o.isCorrect]]

Content(qs, os, m, t) ==
    LET ids == SortedSeq(Ids(PartitionQuestions(qs, m, t)))
    IN  [k \in 1..Len(ids) |->
            LET q == CHOOSE r \in qs : r.id = ids[k]
            IN  [text |-> q.text, options |-> OptionContent(os, q.id)]]

(***************************************************************************)
(* Referential integrity of the store.  An option needs its question       *)
(* ("Delete options first (foreign key constraint)"), so a question that   *)
(* still has options cannot be deleted.  Whether the schema also declares  *)
(* the attempts' references as foreign keys is given by attemptsFk: where  *)
(* it does, a row an attempt references cannot be deleted.                 *)
(***************************************************************************)
OptionsReferenced(as, oids) == attemptsFk /\ \E a \in as : a.selectedOptionId \in oids

QuestionsReferenced(as, os, qids) ==
    \/ attemptsFk /\ \E a \in as : a.questionId \in qids
    \/ \E o \in os : o.questionId \in qids

(***************************************************************************)
(* The state of one run of a script.                                       *)
(***************************************************************************)
EmptyTx == [active |-> FALSE, insQ |-> {}, insO |-> {}, delQ |-> {}, delO |-> {}]

EmptySnapshot == [questions |-> {}, options |-> {}, attempts |-> {}]

IdleProc ==
    [script |-> "none", pc |-> "idle", moduleId |-> "", topic |-> "", data |-> <<>>,
     batchSize |-> 0, existing |-> <<>>, d |-> 0, i |-> 0, batchIndex |-> 0, b |-> 0,
     j |-> 0, qid |-> 0, importedCount |-> 0, result |-> -1, tx |-> EmptyTx,
     hasClient |-> FALSE, pre |-> EmptySnapshot, errors |-> 0, fkErrors |-> 0,
     failedAt |-> {},
     origin |-> {}, args |-> <<>>, reported |-> "none", rolledBack |-> FALSE,
     optionIds |-> {}, how |-> "none", cfg |-> 0, visited |-> <<>>, after |-> {}, log |-> <<>>]

Snapshot == [questions |-> questions, options |-> options, attempts |-> attempts]

\* the script processes that have ended: what a run that starts now comes after
RunsOver == {r \in DOMAIN proc : proc[r].pc \in {"done", "failed"}}

\* the partition a run works on
RunModule(pr) == pr.moduleId

RunTopic(pr) == IF pr.script = "importModule" THEN ToUpperCase(pr.topic) ELSE pr.topic

Min(a, b) == IF a <= b THEN a ELSE b

\* bookkeeping of the statements of transaction control and of the release of
\* the client: what was issued, and whether it took effect or threw
Logged(pr, op, ok) == [pr EXCEPT !.log = Append(@, <<op, ok>>)]

\* bookkeeping of a failing query: refused is TRUE when the store had to refuse
\* it (referential integrity), FALSE when it failed for another reason
Refused(pr, refused) == [pr EXCEPT !.fkErrors = IF refused THEN @ + 1 ELSE @]

(***************************************************************************)
(* importMCQ.ts                                                            *)
(***************************************************************************)
\* if (!questionData.question || !Array.isArray(questionData.options) ||
\*     questionData.correctIndex === undefined) -> skip
IsAccepted(c) == ~(c.question = "" \/ ~c.isArray \/ ~c.hasIndex)

\* importSpecificModule: if (!questionData.question || !Array.isArray(questionData.options))
IsAcceptedNoIndex(c) == ~(c.question = "" \/ ~c.isArray)

\* the scripts that clear and import through the ORM, one query at a time
OrmScripts == {"importMCQ", "importSpecificModule"}

\* the required-fields check of the script run pr belongs to
Accepts(pr, c) ==
    IF pr.script = "importSpecificModule" THEN IsAcceptedNoIndex(c) ELSE IsAccepted(c)

\* an option text taken from another position: the last choice first
OptionTextReversed(c, j) == c.options[Len(c.options) - j]

\* text: questionData.options[j]
OptionText(c, j) == c.options[j + 1]

\* isCorrect: j === questionData.correctIndex
IsCorrectAt(c, j) == c.hasIndex /\ j = c.correctIndex

\* 1-based position in data of the record the loops stand at
McqPos(pr) == pr.i + pr.b + 1

\* batch = questionsData.slice(i, Math.min(i + batchSize, questionsData.length))
McqBatchLen(pr) == Min(pr.i + pr.batchSize, Len(pr.data)) - pr.i

\* the next record of the batch, or the next batch (i += batchSize)
McqAdvance(pr) ==
    IF pr.b + 1 < McqBatchLen(pr)
    THEN [pr EXCEPT !.b = @ + 1, !.pc = "import"]
    ELSE [pr EXCEPT !.i = @ + pr.batchSize, !.b = 0, !.pc = "import"]

\* a per record failure that is not caught: it ends the import
McqOnInsertErrorFatal(pr) ==
    [pr EXCEPT !.errors = @ + 1, !.failedAt = @ \cup {McqPos(pr)}, !.pc = "failed"]

\* catch (error) { console.error(...) } of the per record try: go on with the next
McqOnInsertError(pr) ==
    McqAdvance([pr EXCEPT !.errors = @ + 1, !.failedAt = @ \cup {McqPos(pr)}])

\* an error thrown out of clearQuestionsForTopic ends processModuleTopic
McqOnClearError(pr) == [pr EXCEPT !.errors = @ + 1, !.pc = "failed"]

\* the partitions a run of the model may be started on
Targets == {moduleConfig[1], moduleConfig[11]}

MCQ_Start(p) ==
    /\ proc[p].pc = "idle"
    /\ runs < MaxRuns
    /\ \E c \in Targets :
          proc' = [proc EXCEPT ![p] =
                      [IdleProc EXCEPT !.script = "importMCQ", !.pc = "process",
                                       !.moduleId = c.moduleId, !.topic = c.topic,
                                       !.data = fileData[c.filename],
                                       !.batchSize = batchSizeOf.importMCQ,
                                       !.pre = Snapshot,
                                       !.after = RunsOver]]
    /\ runs' = runs + 1
    /\ UNCHANGED <<store, env, hist>>

\* a processModuleTopic that clears the partition before it looks at the list
MCQ_NoQuestionsAfterClear(p) ==
    LET pr == proc[p]
        gone == Ids(ExistingQuestions(questions, pr.moduleId, pr.topic))
    IN  /\ pr.script \in OrmScripts
        /\ pr.pc = "process"
        /\ Len(pr.data) = 0
        /\ options' = {o \in options : o.questionId \notin gone}
        /\ questions' = {q \in questions : q.id \notin gone}
        /\ proc' = [proc EXCEPT ![p].pc = "done"]
        /\ UNCHANGED <<attempts, nextQid, nextOid, env, runs, hist>>

\* a missing or empty file that ends the script instead of the partition
MCQ_NoQuestionsFatal(p) ==
    /\ proc[p].script \in OrmScripts
    /\ proc[p].pc = "process"
    /\ Len(proc[p].data) = 0
    /\ proc' = [proc EXCEPT ![p].pc = "failed"]
    /\ UNCHANGED <<store, env, runs, hist>>

\* file missing, or questionsData.length === 0: return
MCQ_NoQuestions(p) ==
    /\ proc[p].script \in OrmScripts
    /\ proc[p].pc = "process"
    /\ Len(proc[p].data) = 0
    /\ proc' = [proc EXCEPT ![p].pc = "done"]
    /\ UNCHANGED <<store, env, runs, hist>>

\* clearQuestionsForTopic: select the existing questions
MCQ_SelectExisting(p) ==
    LET pr == proc[p]
        found == SortedSeq(Ids(ExistingQuestions(questions, pr.moduleId, pr.topic)))
    IN  /\ pr.script \in OrmScripts
        /\ pr.pc = "process"
        /\ Len(pr.data) > 0
        /\ \/ proc' = [proc EXCEPT ![p] =
                          [pr EXCEPT !.existing = found,
                                     !.d = 1,
                                     !.pc = IF Len(found) = 0 THEN "import" ELSE "delOpts"]]
           \/ proc' = [proc EXCEPT ![p] = McqOnClearError(pr)]
        /\ UNCHANGED <<store, env, runs, hist>>

\* delete(options).where(eq(options.questionId, question.id)), one question a step
MCQ_DeleteOptions(p) ==
    LET pr == proc[p]
        victims == OptionsOf(options, pr.existing[pr.d])
    IN  /\ pr.script \in OrmScripts
        /\ pr.pc = "delOpts"
        /\ \/ /\ ~OptionsReferenced(attempts, Ids(victims))
              /\ options' = options \ victims
              /\ proc' = [proc EXCEPT ![p] =
                             [pr EXCEPT !.d = @ + 1,
                                        !.pc = IF pr.d = Len(pr.existing)
                                               THEN "delQs" ELSE "delOpts"]]
           \/ /\ proc' = [proc EXCEPT ![p] =
                             McqOnClearError(
                                 Refused(pr, OptionsReferenced(attempts, Ids(victims))))]
              /\ UNCHANGED options
        /\ UNCHANGED <<questions, attempts, nextQid, nextOid, env, runs, hist>>

\* delete(questions).where(and(eq(moduleId), eq(topic)))
MCQ_DeleteQuestions(p) ==
    LET pr == proc[p]
        victims == ExistingQuestions(questions, pr.moduleId, pr.topic)
    IN  /\ pr.script \in OrmScripts
        /\ pr.pc = "delQs"
        /\ \/ /\ ~QuestionsReferenced(attempts, options, Ids(victims))
              /\ questions' = questions \ victims
              /\ proc' = [proc EXCEPT ![p] = [pr EXCEPT !.pc = "import"]]
           \/ /\ proc' = [proc EXCEPT ![p] =
                             McqOnClearError(
                                 Refused(pr, QuestionsReferenced(attempts, options, Ids(victims))))]
              /\ UNCHANGED questions
        /\ UNCHANGED <<options, attempts, nextQid, nextOid, env, runs, hist>>

\* the record fails the required-fields check: continue
MCQ_SkipInvalid(p) ==
    LET pr == proc[p]
    IN  /\ pr.script \in OrmScripts
        /\ pr.pc = "import"
        /\ pr.i < Len(pr.data)
        /\ ~Accepts(pr, pr.data[McqPos(pr)])
        /\ proc' = [proc EXCEPT ![p] = McqAdvance(pr)]
        /\ UNCHANGED <<store, env, runs, hist>>

\* insert(questions).values({...}).returning(); with no option to insert the
\* record is counted at once
MCQ_InsertQuestion(p) ==
    LET pr == proc[p]
        c == pr.data[McqPos(pr)]
        row == QRow(nextQid, pr.moduleId, pr.topic, c.question)
        inserted == [pr EXCEPT !.qid = nextQid, !.j = 0, !.pc = "insOpts",
                               !.origin = @ \cup {<<nextQid, McqPos(pr)>>}]
    IN  /\ pr.script \in OrmScripts
        /\ pr.pc = "import"
        /\ pr.i < Len(pr.data)
        /\ Accepts(pr, c)
        /\ \/ /\ questions' = questions \cup {row}
              /\ nextQid' = nextQid + 1
              /\ proc' = [proc EXCEPT ![p] =
                             IF Len(c.options) = 0
                             THEN McqAdvance([inserted EXCEPT !.importedCount = @ + 1])
                             ELSE inserted]
           \/ /\ proc' = [proc EXCEPT ![p] = McqOnInsertError(pr)]
              /\ UNCHANGED <<questions, nextQid>>
        /\ UNCHANGED <<options, attempts, nextOid, env, runs, hist>>

\* insert(options).values({questionId, text: options[j], isCorrect: j === correctIndex});
\* after the last option importedCount++
MCQ_InsertOption(p) ==
    LET pr == proc[p]
        c == pr.data[McqPos(pr)]
        row == ORow(nextOid, pr.qid, OptionText(c, pr.j), IsCorrectAt(c, pr.j))
    IN  /\ pr.script \in OrmScripts
        /\ pr.pc = "insOpts"
        /\ \/ /\ pr.qid \in Ids(questions)
              /\ options' = options \cup {row}
              /\ nextOid' = nextOid + 1
              /\ proc' = [proc EXCEPT ![p] =
                             IF pr.j + 1 = Len(c.options)
                             THEN McqAdvance([pr EXCEPT !.importedCount = @ + 1])
                             ELSE [pr EXCEPT !.j = @ + 1]]
           \/ /\ proc' = [proc EXCEPT ![p] =
                             McqOnInsertError(Refused(pr, pr.qid \notin Ids(questions)))]
              /\ UNCHANGED <<options, nextOid>>
        /\ UNCHANGED <<questions, attempts, nextQid, env, runs, hist>>

\* the loop is over: return importedCount
MCQ_Finish(p) ==
    LET pr == proc[p]
    IN  /\ pr.script \in OrmScripts
        /\ pr.pc = "import"
        /\ pr.i >= Len(pr.data)
        /\ proc' = [proc EXCEPT ![p] = [pr EXCEPT !.pc = "done", !.result = pr.importedCount]]
        /\ UNCHANGED <<store, env, runs, hist>>

(***************************************************************************)
(* import-module.js                                                        *)
(***************************************************************************)
\* const totalBatches = Math.ceil(questionsData.length / batchSize)
ModTotalBatches(pr) == (Len(pr.data) + pr.batchSize - 1) \div pr.batchSize

\* a start that leaves the batch size out
ModStartAtIndex(pr) == pr.batchIndex

\* start = batchIndex * batchSize
ModStart(pr) == pr.batchIndex * pr.batchSize

\* batch = questionsData.slice(start, Math.min(start + batchSize, length))
ModBatchLen(pr) == Min(ModStart(pr) + pr.batchSize, Len(pr.data)) - ModStart(pr)

\* 1-based position in data of batch[i]
ModPos(pr) == ModStart(pr) + pr.b + 1

\* a query of the inner try throws: control goes to catch (error)
ModOnError(pr) == [pr EXCEPT !.errors = @ + 1, !.pc = "catch"]

\* a ROLLBACK that leaves the questions as they are
RollbackQuestionsNone(qs, tx) == qs

\* what ROLLBACK leaves of the questions: the open transaction's writes undone
RollbackQuestions(qs, tx) ==
    IF tx.active THEN {q \in qs : q.id \notin tx.insQ} \cup tx.delQ ELSE qs

\* what ROLLBACK leaves of the options
RollbackOptions(os, tx) ==
    IF tx.active THEN {o \in os : o.id \notin tx.insO} \cup tx.delO ELSE os

Mod_Start(p) ==
    /\ proc[p].pc = "idle"
    /\ runs < MaxRuns
    /\ \E c \in Targets :
          proc' = [proc EXCEPT ![p] =
                      [IdleProc EXCEPT !.script = "importModule", !.pc = "main",
                                       !.moduleId = c.moduleId, !.topic = c.topic,
                                       !.data = fileData[c.filename],
                                       !.batchSize = batchSizeOf.importModule,
                                       !.pre = Snapshot,
                                       !.after = RunsOver]]
    /\ runs' = runs + 1
    /\ UNCHANGED <<store, env, hist>>

\* main: if (questionsData.length === 0) process.exit(1)
Mod_NoQuestions(p) ==
    /\ proc[p].script = "importModule"
    /\ proc[p].pc = "main"
    /\ Len(proc[p].data) = 0
    /\ proc' = [proc EXCEPT ![p].pc = "failed"]
    /\ UNCHANGED <<store, env, runs, hist>>

\* const client = await pool.connect(); a failure is rethrown by the outer catch
Mod_Connect(p) ==
    LET pr == proc[p]
    IN  /\ pr.script = "importModule"
        /\ pr.pc = "main"
        /\ Len(pr.data) > 0
        /\ \/ proc' = [proc EXCEPT ![p] = [pr EXCEPT !.hasClient = TRUE, !.pc = "beginClear"]]
           \/ proc' = [proc EXCEPT ![p] = [pr EXCEPT !.errors = @ + 1, !.pc = "failed"]]
        /\ UNCHANGED <<store, env, runs, hist>>

\* await client.query('BEGIN') before the deletes
Mod_BeginClear(p) ==
    LET pr == proc[p]
    IN  /\ pr.script = "importModule"
        /\ pr.pc = "beginClear"
        /\ \/ proc' = [proc EXCEPT ![p] =
                          [Logged(pr, "BEGIN", TRUE)
                              EXCEPT !.tx = [EmptyTx EXCEPT !.active = TRUE], !.pc = "delOpts"]]
           \/ proc' = [proc EXCEPT ![p] = ModOnError(Logged(pr, "BEGIN", FALSE))]
        /\ UNCHANGED <<store, env, runs, hist>>

\* DELETE FROM options WHERE question_id IN (SELECT id FROM questions WHERE ...)
Mod_DeleteOptions(p) ==
    LET pr == proc[p]
        victims == OptionsOfPartition(questions, options, RunModule(pr), RunTopic(pr))
    IN  /\ pr.script = "importModule"
        /\ pr.pc = "delOpts"
        /\ \/ /\ ~OptionsReferenced(attempts, Ids(victims))
              /\ options' = options \ victims
              /\ proc' = [proc EXCEPT ![p] =
                             [pr EXCEPT !.tx.delO = @ \cup victims, !.pc = "delQs"]]
           \/ /\ proc' = [proc EXCEPT ![p] =
                             ModOnError(Refused(pr, OptionsReferenced(attempts, Ids(victims))))]
              /\ UNCHANGED options
        /\ UNCHANGED <<questions, attempts, nextQid, nextOid, env, runs, hist>>

\* DELETE FROM questions WHERE module_id = $1 AND topic = $2
Mod_DeleteQuestions(p) ==
    LET pr == proc[p]
        victims == ExistingQuestions(questions, RunModule(pr), RunTopic(pr))
    IN  /\ pr.script = "importModule"
        /\ pr.pc = "delQs"
        /\ \/ /\ ~QuestionsReferenced(attempts, options, Ids(victims))
              /\ questions' = questions \ victims
              /\ proc' = [proc EXCEPT ![p] =
                             [pr EXCEPT !.tx.delQ = @ \cup victims, !.pc = "commitClear"]]
           \/ /\ proc' = [proc EXCEPT ![p] =
                             ModOnError(
                                 Refused(pr, QuestionsReferenced(attempts, options, Ids(victims))))]
              /\ UNCHANGED questions
        /\ UNCHANGED <<options, attempts, nextQid, nextOid, env, runs, hist>>

\* await client.query('COMMIT') after the deletes
Mod_CommitClear(p) ==
    LET pr == proc[p]
    IN  /\ pr.script = "importModule"
        /\ pr.pc = "commitClear"
        /\ \/ proc' = [proc EXCEPT ![p] =
                          [Logged(pr, "COMMIT", TRUE)
                              EXCEPT !.tx = EmptyTx, !.batchIndex = 0, !.pc = "batch"]]
           \/ proc' = [proc EXCEPT ![p] = ModOnError(Logged(pr, "COMMIT", FALSE))]
        /\ UNCHANGED <<store, env, runs, hist>>

\* await client.query('BEGIN') of a batch
Mod_BeginBatch(p) ==
    LET pr == proc[p]
    IN  /\ pr.script = "importModule"
        /\ pr.pc = "batch"
        /\ pr.batchIndex < ModTotalBatches(pr)
        /\ \/ proc' = [proc EXCEPT ![p] =
                          [Logged(pr, "BEGIN", TRUE)
                              EXCEPT !.tx = [EmptyTx EXCEPT !.active = TRUE],
                                     !.b = 0, !.pc = "record"]]
           \/ proc' = [proc EXCEPT ![p] = ModOnError(Logged(pr, "BEGIN", FALSE))]
        /\ UNCHANGED <<store, env, runs, hist>>

\* Skip invalid questions: continue
Mod_SkipInvalid(p) ==
    LET pr == proc[p]
    IN  /\ pr.script = "importModule"
        /\ pr.pc = "record"
        /\ pr.b < ModBatchLen(pr)
        /\ ~IsAccepted(pr.data[ModPos(pr)])
        /\ proc' = [proc EXCEPT ![p] = [pr EXCEPT !.b = @ + 1]]
        /\ UNCHANGED <<store, env, runs, hist>>

\* INSERT INTO questions (...) VALUES (...) RETURNING id
Mod_InsertQuestion(p) ==
    LET pr == proc[p]
        c == pr.data[ModPos(pr)]
        row == QRow(nextQid, RunModule(pr), RunTopic(pr), c.question)
        inserted == [pr EXCEPT !.qid = nextQid, !.j = 0, !.pc = "insOpts",
                               !.tx.insQ = @ \cup {nextQid},
                               !.origin = @ \cup {<<nextQid, ModPos(pr)>>}]
    IN  /\ pr.script = "importModule"
        /\ pr.pc = "record"
        /\ pr.b < ModBatchLen(pr)
        /\ IsAccepted(c)
        /\ \/ /\ questions' = questions \cup {row}
              /\ nextQid' = nextQid + 1
              /\ proc' = [proc EXCEPT ![p] =
                             IF Len(c.options) = 0
                             THEN [inserted EXCEPT !.b = @ + 1, !.pc = "record"]
                             ELSE inserted]
           \/ /\ proc' = [proc EXCEPT ![p] =
                             ModOnError([pr EXCEPT !.failedAt = @ \cup {ModPos(pr)}])]
              /\ UNCHANGED <<questions, nextQid>>
        /\ UNCHANGED <<options, attempts, nextOid, env, runs, hist>>

\* INSERT INTO options (question_id, text, is_correct) VALUES ($1, $2, j === correctIndex)
Mod_InsertOption(p) ==
    LET pr == proc[p]
        c == pr.data[ModPos(pr)]
        row == ORow(nextOid, pr.qid, OptionText(c, pr.j), IsCorrectAt(c, pr.j))
    IN  /\ pr.script = "importModule"
        /\ pr.pc = "insOpts"
        /\ \/ /\ pr.qid \in Ids(questions)
              /\ options' = options \cup {row}
              /\ nextOid' = nextOid + 1
              /\ proc' = [proc EXCEPT ![p] =
                             IF pr.j + 1 = Len(c.options)
                             THEN [pr EXCEPT !.tx.insO = @ \cup {nextOid},
                                             !.b = @ + 1, !.pc = "record"]
                             ELSE [pr EXCEPT !.tx.insO = @ \cup {nextOid}, !.j = @ + 1]]
           \/ /\ proc' = [proc EXCEPT ![p] =
                             ModOnError([Refused(pr, pr.qid \notin Ids(questions))
                                            EXCEPT !.failedAt = @ \cup {ModPos(pr)}])]
              /\ UNCHANGED <<options, nextOid>>
        /\ UNCHANGED <<questions, attempts, nextQid, env, runs, hist>>

\* await client.query('COMMIT') of a batch
Mod_CommitBatch(p) ==
    LET pr == proc[p]
    IN  /\ pr.script = "importModule"
        /\ pr.pc = "record"
        /\ pr.b >= ModBatchLen(pr)
        /\ \/ proc' = [proc EXCEPT ![p] =
                          [Logged(pr, "COMMIT", TRUE)
                              EXCEPT !.tx = EmptyTx, !.batchIndex = @ + 1, !.pc = "batch"]]
           \/ proc' = [proc EXCEPT ![p] = ModOnError(Logged(pr, "COMMIT", FALSE))]
        /\ UNCHANGED <<store, env, runs, hist>>

\* return questionsData.length; finally client.release()
Mod_Finish(p) ==
    LET pr == proc[p]
    IN  /\ pr.script = "importModule"
        /\ pr.pc = "batch"
        /\ pr.batchIndex >= ModTotalBatches(pr)
        /\ proc' = [proc EXCEPT ![p] =
                       [Logged(pr, "release", TRUE)
                           EXCEPT !.result = Len(pr.data), !.hasClient = FALSE, !.pc = "done"]]
        /\ UNCHANGED <<store, env, runs, hist>>

\* a catch that rethrows without a ROLLBACK; finally release
Mod_RollbackMissing(p) ==
    LET pr == proc[p]
    IN  /\ pr.script = "importModule"
        /\ pr.pc = "catch"
        /\ proc' = [proc EXCEPT ![p] =
                       [Logged(pr, "release", TRUE)
                           EXCEPT !.tx = EmptyTx, !.hasClient = FALSE, !.pc = "failed"]]
        /\ UNCHANGED <<store, env, runs, hist>>

\* catch (error) { await client.query('ROLLBACK'); throw error } finally release
Mod_Rollback(p) ==
    LET pr == proc[p]
    IN  /\ pr.script = "importModule"
        /\ pr.pc = "catch"
        /\ questions' = RollbackQuestions(questions, pr.tx)
        /\ options' = RollbackOptions(options, pr.tx)
        /\ proc' = [proc EXCEPT ![p] =
                       [Logged(Logged(pr, "ROLLBACK", TRUE), "release", TRUE)
                           EXCEPT !.tx = EmptyTx, !.hasClient = FALSE, !.rolledBack = TRUE,
                                  !.pc = "failed"]]
        /\ UNCHANGED <<attempts, nextQid, nextOid, env, runs, hist>>

(***************************************************************************)
(* The direct SQL import of FOCS2 (scripts/import.ts main, and the same    *)
(* script in unnamed/part_001): the deletes and all the inserts in one     *)
(* transaction; the catch rolls back and logs, and main ends normally.     *)
(***************************************************************************)
\* 1-based position in data of the record the loop stands at
DirectPos(pr) == pr.b + 1

\* a query of the inner try throws: control goes to catch (error)
DirectOnError(pr) == [pr EXCEPT !.errors = @ + 1, !.pc = "dCatch"]

\* catch (error) { await client.query('ROLLBACK'); console.error(...) } finally release;
\* main returns
DirectAfterCatch(pr) ==
    [pr EXCEPT !.tx = EmptyTx, !.hasClient = FALSE, !.rolledBack = TRUE, !.pc = "done"]

Direct_Start(p) ==
    /\ proc[p].pc = "idle"
    /\ runs < MaxRuns
    /\ proc' = [proc EXCEPT ![p] =
                   [IdleProc EXCEPT !.script = "directImport", !.pc = "dMain",
                                    !.moduleId = "focs", !.topic = "FOCS2",
                                    !.data = fileData["focs2.js"], !.pre = Snapshot]]
    /\ runs' = runs + 1
    /\ UNCHANGED <<store, env, hist>>

\* if (!Array.isArray(questionsData) || questionsData.length === 0) process.exit(1)
Direct_NoQuestions(p) ==
    /\ proc[p].script = "directImport"
    /\ proc[p].pc = "dMain"
    /\ Len(proc[p].data) = 0
    /\ proc' = [proc EXCEPT ![p].pc = "failed"]
    /\ UNCHANGED <<store, env, runs, hist>>

\* const client = await pool.connect(); a failure is logged by the outer catch
Direct_Connect(p) ==
    LET pr == proc[p]
    IN  /\ pr.script = "directImport"
        /\ pr.pc = "dMain"
        /\ Len(pr.data) > 0
        /\ \/ proc' = [proc EXCEPT ![p] = [pr EXCEPT !.hasClient = TRUE, !.pc = "dBegin"]]
           \/ proc' = [proc EXCEPT ![p] = [pr EXCEPT !.errors = @ + 1, !.pc = "done"]]
        /\ UNCHANGED <<store, env, runs, hist>>

\* await client.query('BEGIN')
Direct_Begin(p) ==
    LET pr == proc[p]
    IN  /\ pr.script = "directImport"
        /\ pr.pc = "dBegin"
        /\ \/ proc' = [proc EXCEPT ![p] =
                          [pr EXCEPT !.tx = [EmptyTx EXCEPT !.active = TRUE], !.pc = "dDelOpts"]]
           \/ proc' = [proc EXCEPT ![p] = DirectOnError(pr)]
        /\ UNCHANGED <<store, env, runs, hist>>

\* DELETE FROM options WHERE question_id IN (SELECT id FROM questions WHERE
\* module_id = 'focs' AND topic = 'FOCS2')
Direct_DeleteOptions(p) ==
    LET pr == proc[p]
        victims == OptionsOfPartition(questions, options, pr.moduleId, pr.topic)
    IN  /\ pr.script = "directImport"
        /\ pr.pc = "dDelOpts"
        /\ \/ /\ ~OptionsReferenced(attempts, Ids(victims))
              /\ options' = options \ victims
              /\ proc' = [proc EXCEPT ![p] =
                             [pr EXCEPT !.tx.delO = @ \cup victims, !.pc = "dDelQs"]]
           \/ /\ proc' = [proc EXCEPT ![p] =
                             DirectOnError(
                                 Refused(pr, OptionsReferenced(attempts, Ids(victims))))]
              /\ UNCHANGED options
        /\ UNCHANGED <<questions, attempts, nextQid, nextOid, env, runs, hist>>

\* DELETE FROM questions WHERE module_id = 'focs' AND topic = 'FOCS2'
Direct_DeleteQuestions(p) ==
    LET pr == proc[p]
        victims == ExistingQuestions(questions, pr.moduleId, pr.topic)
    IN  /\ pr.script = "directImport"
        /\ pr.pc = "dDelQs"
        /\ \/ /\ ~QuestionsReferenced(attempts, options, Ids(victims))
              /\ questions' = questions \ victims
              /\ proc' = [proc EXCEPT ![p] =
                             [pr EXCEPT !.tx.delQ = @ \cup victims, !.b = 0, !.pc = "dRecord"]]
           \/ /\ proc' = [proc EXCEPT ![p] =
                             DirectOnError(
                                 Refused(pr, QuestionsReferenced(attempts, options, Ids(victims))))]
              /\ UNCHANGED questions
        /\ UNCHANGED <<options, attempts, nextQid, nextOid, env, runs, hist>>

\* Invalid question data, skipping: continue
Direct_SkipInvalid(p) ==
    LET pr == proc[p]
    IN  /\ pr.script = "directImport"
        /\ pr.pc = "dRecord"
        /\ pr.b < Len(pr.data)
        /\ ~IsAccepted(pr.data[DirectPos(pr)])
        /\ proc' = [proc EXCEPT ![p] = [pr EXCEPT !.b = @ + 1]]
        /\ UNCHANGED <<store, env, runs, hist>>

\* INSERT INTO questions (...) VALUES ('focs', 'FOCS2', ...) RETURNING id; with no
\* option to insert importedCount++ follows at once
Direct_InsertQuestion(p) ==
    LET pr == proc[p]
        c == pr.data[DirectPos(pr)]
        row == QRow(nextQid, pr.moduleId, pr.topic, c.question)
        inserted == [pr EXCEPT !.qid = nextQid, !.j = 0, !.pc = "dInsOpts",
                               !.tx.insQ = @ \cup {nextQid},
                               !.origin = @ \cup {<<nextQid, DirectPos(pr)>>}]
    IN  /\ pr.script = "directImport"
        /\ pr.pc = "dRecord"
        /\ pr.b < Len(pr.data)
        /\ IsAccepted(c)
        /\ \/ /\ questions' = questions \cup {row}
              /\ nextQid' = nextQid + 1
              /\ proc' = [proc EXCEPT ![p] =
                             IF Len(c.options) = 0
                             THEN [inserted EXCEPT !.b = @ + 1, !.importedCount = @ + 1,
                                                   !.pc = "dRecord"]
                             ELSE inserted]
           \/ /\ proc' = [proc EXCEPT ![p] =
                             DirectOnError([pr EXCEPT !.failedAt = @ \cup {DirectPos(pr)}])]
              /\ UNCHANGED <<questions, nextQid>>
        /\ UNCHANGED <<options, attempts, nextOid, env, runs, hist>>

\* INSERT INTO options (question_id, text, is_correct) VALUES ($1, $2, i === correctIndex);
\* after the last option importedCount++
Direct_InsertOption(p) ==
    LET pr == proc[p]
        c == pr.data[DirectPos(pr)]
        row == ORow(nextOid, pr.qid, OptionText(c, pr.j), IsCorrectAt(c, pr.j))
    IN  /\ pr.script = "directImport"
        /\ pr.pc = "dInsOpts"
        /\ \/ /\ pr.qid \in Ids(questions)
              /\ options' = options \cup {row}
              /\ nextOid' = nextOid + 1
              /\ proc' = [proc EXCEPT ![p] =
                             IF pr.j + 1 = Len(c.options)
                             THEN [pr EXCEPT !.tx.insO = @ \cup {nextOid}, !.b = @ + 1,
                                             !.importedCount = @ + 1, !.pc = "dRecord"]
                             ELSE [pr EXCEPT !.tx.insO = @ \cup {nextOid}, !.j = @ + 1]]
           \/ /\ proc' = [proc EXCEPT ![p] =
                             DirectOnError([Refused(pr, pr.qid \notin Ids(questions))
                                               EXCEPT !.failedAt = @ \cup {DirectPos(pr)}])]
              /\ UNCHANGED <<options, nextOid>>
        /\ UNCHANGED <<questions, attempts, nextQid, env, runs, hist>>

\* await client.query('COMMIT'); finally client.release(); main returns
Direct_Commit(p) ==
    LET pr == proc[p]
    IN  /\ pr.script = "directImport"
        /\ pr.pc = "dRecord"
        /\ pr.b >= Len(pr.data)
        /\ \/ proc' = [proc EXCEPT ![p] =
                          [pr EXCEPT !.tx = EmptyTx, !.hasClient = FALSE,
                                     !.result = pr.importedCount, !.pc = "done"]]
           \/ proc' = [proc EXCEPT ![p] = DirectOnError(pr)]
        /\ UNCHANGED <<store, env, runs, hist>>

\* catch (error) { await client.query('ROLLBACK'); console.error(...) }
Direct_Rollback(p) ==
    LET pr == proc[p]
    IN  /\ pr.script = "directImport"
        /\ pr.pc = "dCatch"
        /\ questions' = RollbackQuestions(questions, pr.tx)
        /\ options' = RollbackOptions(options, pr.tx)
        /\ proc' = [proc EXCEPT ![p] = DirectAfterCatch(pr)]
        /\ UNCHANGED <<attempts, nextQid, nextOid, env, runs, hist>>

(***************************************************************************)
(* cleanupDatabase.ts (temp_scripts/importMCQ.ts, lines 257-360): remove   *)
(* the questions its filter calls invalid, with their options and the      *)
(* attempts on them.  No transaction; an error ends the script.            *)
(***************************************************************************)
validModules == {"focs", "bcr", "msk", "anatomy"}

validTopics ==
    {"FOCS1", "FOCS2", "FOCS3", "FOCS4", "FOCS5", "BCR1", "BCR2", "BCR3", "BCR4",
     "MSK1", "MSK2", "Anatomy"}

\* the question texts of the model in which 'sample' occurs, whatever the case
SampleTexts == {"Sample question 1", "Which sample tube is used for a blood count?"}

\* (q.text || '').toLowerCase().includes('sample')
ContainsSample(text) == text \in SampleTexts

\* the filter of invalidQuestions
IsInvalidQuestion(q) ==
    \/ q.moduleId \notin validModules
    \/ q.topic \notin validTopics
    \/ ContainsSample(q.text)

\* where inArray(attempts.selectedOptionId, invalidOptionIds)
AttemptsOnOptions(as, oids) == {a \in as : a.selectedOptionId \in oids}

\* a delete of attempts with no condition
AttemptsOnQuestionsAll(as, qids) == as

\* where inArray(attempts.questionId, invalidQuestionIds)
AttemptsOnQuestions(as, qids) == {a \in as : a.questionId \in qids}

\* an error thrown by a query: main().catch, process.exit(1)
CleanupOnError(pr) == [pr EXCEPT !.errors = @ + 1, !.pc = "failed"]

\* a cleanup that goes from the selection of the options straight to their delete
CleanupSkipAttempts(pr, oids) == [pr EXCEPT !.optionIds = oids, !.d = 1, !.pc = "cDelOpts"]

\* after the options are selected: the attempts on them first, if there are any
\* options, then the attempts on the questions
CleanupAfterSelectOptions(pr, oids) ==
    [pr EXCEPT !.optionIds = oids, !.pc = IF oids # {} THEN "cDelOptAtt" ELSE "cDelQAtt"]

Cleanup_Start(p) ==
    /\ proc[p].pc = "idle"
    /\ runs < MaxRuns
    /\ proc' = [proc EXCEPT ![p] =
                   [IdleProc EXCEPT !.script = "cleanup", !.pc = "cSelect", !.pre = Snapshot]]
    /\ runs' = runs + 1
    /\ UNCHANGED <<store, env, hist>>

\* allQuestions = select from questions; invalidQuestions = allQuestions.filter(...);
\* none: return
Cleanup_SelectQuestions(p) ==
    LET pr == proc[p]
        invalid == SortedSeq(Ids({q \in questions : IsInvalidQuestion(q)}))
    IN  /\ pr.script = "cleanup"
        /\ pr.pc = "cSelect"
        /\ \/ proc' = [proc EXCEPT ![p] =
                          [pr EXCEPT !.existing = invalid,
                                     !.pc = IF Len(invalid) = 0 THEN "done" ELSE "cSelectOpts"]]
           \/ proc' = [proc EXCEPT ![p] = CleanupOnError(pr)]
        /\ UNCHANGED <<store, env, runs, hist>>

\* invalidOptions = select from options where inArray(questionId, invalidQuestionIds)
Cleanup_SelectOptions(p) ==
    LET pr == proc[p]
        qids == {pr.existing[k] : k \in DOMAIN pr.existing}
        oids == Ids({o \in options : o.questionId \in qids})
    IN  /\ pr.script = "cleanup"
        /\ pr.pc = "cSelectOpts"
        /\ \/ proc' = [proc EXCEPT ![p] = CleanupAfterSelectOptions(pr, oids)]
           \/ proc' = [proc EXCEPT ![p] = CleanupOnError(pr)]
        /\ UNCHANGED <<store, env, runs, hist>>

\* delete(attempts).where(inArray(attempts.selectedOptionId, invalidOptionIds))
Cleanup_DeleteOptionAttempts(p) ==
    LET pr == proc[p]
    IN  /\ pr.script = "cleanup"
        /\ pr.pc = "cDelOptAtt"
        /\ \/ /\ attempts' = attempts \ AttemptsOnOptions(attempts, pr.optionIds)
              /\ proc' = [proc EXCEPT ![p] = [pr EXCEPT !.pc = "cDelQAtt"]]
           \/ /\ proc' = [proc EXCEPT ![p] = CleanupOnError(pr)]
              /\ UNCHANGED attempts
        /\ UNCHANGED <<questions, options, nextQid, nextOid, env, runs, hist>>

\* delete(attempts).where(inArray(attempts.questionId, invalidQuestionIds))
Cleanup_DeleteQuestionAttempts(p) ==
    LET pr == proc[p]
        qids == {pr.existing[k] : k \in DOMAIN pr.existing}
    IN  /\ pr.script = "cleanup"
        /\ pr.pc = "cDelQAtt"
        /\ \/ /\ attempts' = attempts \ AttemptsOnQuestions(attempts, qids)
              /\ proc' = [proc EXCEPT ![p] = [pr EXCEPT !.d = 1, !.pc = "cDelOpts"]]
           \/ /\ proc' = [proc EXCEPT ![p] = CleanupOnError(pr)]
              /\ UNCHANGED attempts
        /\ UNCHANGED <<questions, options, nextQid, nextOid, env, runs, hist>>

\* for (const questionId of invalidQuestionIds) delete(options).where(eq(questionId))
Cleanup_DeleteOptions(p) ==
    LET pr == proc[p]
        victims == OptionsOf(options, pr.existing[pr.d])
    IN  /\ pr.script = "cleanup"
        /\ pr.pc = "cDelOpts"
        /\ \/ /\ ~OptionsReferenced(attempts, Ids(victims))
              /\ options' = options \ victims
              /\ proc' = [proc EXCEPT ![p] =
                             IF pr.d = Len(pr.existing)
                             THEN [pr EXCEPT !.d = 1, !.pc = "cDelQs"]
                             ELSE [pr EXCEPT !.d = @ + 1]]
           \/ /\ proc' = [proc EXCEPT ![p] =
                             CleanupOnError(
                                 Refused(pr, OptionsReferenced(attempts, Ids(victims))))]
              /\ UNCHANGED options
        /\ UNCHANGED <<questions, attempts, nextQid, nextOid, env, runs, hist>>

\* for (const questionId of invalidQuestionIds) delete(questions).where(eq(id))
Cleanup_DeleteQuestion(p) ==
    LET pr == proc[p]
        victims == {q \in questions : q.id = pr.existing[pr.d]}
    IN  /\ pr.script = "cleanup"
        /\ pr.pc = "cDelQs"
        /\ \/ /\ ~QuestionsReferenced(attempts, options, Ids(victims))
              /\ questions' = questions \ victims
              /\ proc' = [proc EXCEPT ![p] =
                             IF pr.d = Len(pr.existing)
                             THEN [pr EXCEPT !.pc = "cFinal"]
                             ELSE [pr EXCEPT !.d = @ + 1]]
           \/ /\ proc' = [proc EXCEPT ![p] =
                             CleanupOnError(
                                 Refused(pr, QuestionsReferenced(attempts, options, Ids(victims))))]
              /\ UNCHANGED questions
        /\ UNCHANGED <<options, attempts, nextQid, nextOid, env, runs, hist>>

\* remainingQuestions = select from questions; the script is over
Cleanup_Finish(p) ==
    LET pr == proc[p]
    IN  /\ pr.script = "cleanup"
        /\ pr.pc = "cFinal"
        /\ \/ proc' = [proc EXCEPT ![p] =
                          [pr EXCEPT !.result = Len(pr.existing), !.pc = "done"]]
           \/ proc' = [proc EXCEPT ![p] = CleanupOnError(pr)]
        /\ UNCHANGED <<store, env, runs, hist>>

(***************************************************************************)
(* The command lines: main of importMCQ.ts (one argument, a topic), of     *)
(* importSpecificModule (directImportFOCS2.js, lines 150-375) and of       *)
(* import-module.js (two arguments, a module id and a topic).  Each finds  *)
(* the partition to reseed from its arguments, or ends.                    *)
(***************************************************************************)
\* commands one behaviour runs
MaxCommands == 1

\* String.prototype.toLowerCase on the arguments and names the scripts handle
ToLowerCase(s) ==
    CASE s = "FOCS" -> "focs"
      [] s = "FOCS2" -> "focs2"
      [] s = "FOCS3" -> "focs3"
      [] s = "FOCS4" -> "focs4"
      [] s = "FOCS5" -> "focs5"
      [] s = "BCR1" -> "bcr1"
      [] s = "BCR2" -> "bcr2"
      [] s = "BCR3" -> "bcr3"
      [] s = "BCR4" -> "bcr4"
      [] s = "MSK1" -> "msk1"
      [] s = "MSK2" -> "msk2"
      [] s = "Anatomy" -> "anatomy"
      [] s = "XYZ" -> "xyz"
      [] OTHER -> s

\* a test of the file name that every entry passes
FilenameIncludesAny(c, s) == TRUE

\* c.filename.toLowerCase().includes(s), for the lower-case arguments of the
\* model: "js" is part of every file name, "focs" of the focs files, "xyz" and
\* "quiz" of none, and a lower-case topic name of that topic's file
FilenameIncludes(c, s) ==
    CASE s = "js" -> TRUE
      [] s = "focs" -> c.moduleId = "focs"
      [] s \in {"xyz", "quiz"} -> FALSE
      [] OTHER -> ToLowerCase(c.topic) = s

\* importSpecificModule: moduleMapping, the topics of each module
moduleMapping ==
    [m \in {"focs", "bcr", "msk", "anatomy"} |->
        {moduleConfig[k].topic : k \in {n \in DOMAIN moduleConfig : moduleConfig[n].moduleId = m}}]

\* import-module.js: the cases of switch (topic.toLowerCase()), each with its file
SupportedTopics == {ToLowerCase(moduleConfig[k].topic) : k \in DOMAIN moduleConfig}

TopicFile(t) ==
    LET k == CHOOSE n \in DOMAIN moduleConfig : ToLowerCase(moduleConfig[n].topic) = t
    IN  moduleConfig[k].filename

\* the argument of importMCQ.ts
McqArgs ==
    {moduleConfig[k].topic : k \in DOMAIN moduleConfig} \cup {"focs2", "anatomy", "focs", "js", "xyz"}

\* the arguments of the two-argument commands: the configured pairs and others
ArgPairs ==
    {<<moduleConfig[k].moduleId, moduleConfig[k].topic>> : k \in DOMAIN moduleConfig}
        \cup {<<"focs", "focs2">>, <<"FOCS", "FOCS2">>, <<"quiz", "FOCS2">>, <<"focs", "BCR1">>,
              <<"focs", "XYZ">>, <<"quiz", "XYZ">>}

\* moduleConfig.find(c => c.topic.toLowerCase() === t || c.filename.toLowerCase()
\* .includes(t) || c.moduleId.toLowerCase() === t): the positions that match
McqMatching(t) ==
    {k \in DOMAIN moduleConfig :
        \/ ToLowerCase(moduleConfig[k].topic) = t
        \/ FilenameIncludes(moduleConfig[k], t)
        \/ ToLowerCase(moduleConfig[k].moduleId) = t}

\* import.ts main: moduleData.find(m => m.moduleId.toLowerCase() === t ||
\* m.topic.toLowerCase() === t.toUpperCase() || m.filename.toLowerCase()
\* .includes(t)), over the same eleven entries: the positions that match
ImportMatching(t) ==
    {k \in DOMAIN moduleConfig :
        \/ ToLowerCase(moduleConfig[k].moduleId) = t
        \/ ToLowerCase(moduleConfig[k].topic) = ToUpperCase(t)
        \/ FilenameIncludes(moduleConfig[k], t)}

\* importMCQ.ts main with a topic argument
MCQ_Main(p) ==
    /\ proc[p].pc = "idle"
    /\ runs < MaxCommands
    /\ \E a \in McqArgs :
          LET specificTopic == ToLowerCase(a)
              found == McqMatching(specificTopic)
              c == moduleConfig[CHOOSE k \in found : \A n \in found : k <= n]
              run == [IdleProc EXCEPT !.script = "importMCQ", !.args = <<a>>, !.pre = Snapshot]
          IN  proc' = [proc EXCEPT ![p] =
                          IF found = {}
                          THEN [run EXCEPT !.reported = "keys", !.pc = "done"]
                          ELSE [run EXCEPT !.pc = "process", !.moduleId = c.moduleId,
                                           !.topic = c.topic, !.data = fileData[c.filename],
                                           !.batchSize = batchSizeOf.importMCQ]]
    /\ runs' = runs + 1
    /\ UNCHANGED <<store, env, hist>>

\* importMCQ.ts main with no argument: for (const config of moduleConfig) await
\* processModuleTopic(config), here the first turn of the loop; cfg is the loop's
\* position in moduleConfig and visited the positions processModuleTopic was
\* called with
MCQ_MainAll(p) ==
    LET c == moduleConfig[1]
    IN  /\ proc[p].pc = "idle"
        /\ runs < MaxCommands
        /\ proc' = [proc EXCEPT ![p] =
                       [IdleProc EXCEPT !.script = "importMCQ", !.pc = "process",
                                        !.moduleId = c.moduleId, !.topic = c.topic,
                                        !.data = fileData[c.filename],
                                        !.batchSize = batchSizeOf.importMCQ,
                                        !.pre = Snapshot, !.cfg = 1, !.visited = <<1>>]]
        /\ runs' = runs + 1
        /\ UNCHANGED <<store, env, hist>>

\* processModuleTopic has returned: the next turn of the loop, a new call with
\* the locals of a new call
MCQ_NextTopic(p) ==
    LET pr == proc[p]
        k == pr.cfg + 1
    IN  /\ pr.script = "importMCQ"
        /\ pr.pc = "done"
        /\ pr.cfg >= 1
        /\ k <= Len(moduleConfig)
        /\ proc' = [proc EXCEPT ![p] =
                       [pr EXCEPT !.cfg = k, !.visited = Append(@, k), !.pc = "process",
                                  !.moduleId = moduleConfig[k].moduleId,
                                  !.topic = moduleConfig[k].topic,
                                  !.data = fileData[moduleConfig[k].filename],
                                  !.existing = <<>>, !.d = 0, !.i = 0, !.b = 0, !.j = 0,
                                  !.qid = 0, !.importedCount = 0, !.result = -1,
                                  !.origin = {}, !.failedAt = {}]]
        /\ UNCHANGED <<store, env, runs, hist>>

\* importSpecificModule main: the arguments are checked against moduleMapping,
\* then the file is read; an empty file ends the script
ISM_Main(p) ==
    /\ proc[p].pc = "idle"
    /\ runs < MaxCommands
    /\ \E a \in ArgPairs :
          LET moduleId == ToLowerCase(a[1])
              topic == ToUpperCase(a[2])
              run == [IdleProc EXCEPT !.script = "importSpecificModule", !.args = a,
                                      !.pre = Snapshot]
              data == fileData[TopicFile(ToLowerCase(topic))]
          IN  proc' = [proc EXCEPT ![p] =
                          IF moduleId \notin DOMAIN moduleMapping
                          THEN [run EXCEPT !.reported = "keys", !.pc = "failed"]
                          ELSE IF topic \notin moduleMapping[moduleId]
                          THEN [run EXCEPT !.reported = "keys", !.pc = "failed"]
                          ELSE IF Len(data) = 0
                          THEN [run EXCEPT !.moduleId = moduleId, !.topic = topic,
                                           !.pc = "failed"]
                          ELSE [run EXCEPT !.pc = "process", !.moduleId = moduleId,
                                           !.topic = topic, !.data = data,
                                           !.batchSize = batchSizeOf.importMCQ]]
    /\ runs' = runs + 1
    /\ UNCHANGED <<store, env, hist>>

\* import-module.js main: extractModuleData finds the file from the topic alone
\* (Unsupported topic: the error is logged, exit 1); the module id is passed on
Mod_Main(p) ==
    /\ proc[p].pc = "idle"
    /\ runs < MaxCommands
    /\ \E a \in ArgPairs :
          LET t == ToLowerCase(a[2])
              run == [IdleProc EXCEPT !.script = "importModule", !.args = a, !.pre = Snapshot]
          IN  proc' = [proc EXCEPT ![p] =
                          IF t \notin SupportedTopics
                          THEN [run EXCEPT !.reported = "error", !.pc = "failed"]
                          ELSE [run EXCEPT !.pc = "main", !.moduleId = a[1], !.topic = a[2],
                                           !.data = fileData[TopicFile(t)],
                                           !.batchSize = batchSizeOf.importModule]]
    /\ runs' = runs + 1
    /\ UNCHANGED <<store, env, hist>>

(***************************************************************************)
(* The loader of the web client (unnamed/part_003): loadTopicData, with    *)
(* its cache dataCache.  From its entry to the await of the dynamic import *)
(* a call is one step; the import resolves or rejects in a later step.     *)
(* loaderCalls counts, for each topic, the loader's invocations, the loads *)
(* that succeeded, and the invocations at the first success.               *)
(***************************************************************************)
\* calls of loadTopicData one behaviour makes
MaxCalls == 3

\* the topics loadTopicData is called with: two with a data file and one without
LoaderTopics == {"FOCS2", "Anatomy", "XYZ"}

\* mcqFiles: the topics with a loader, each with the asset it imports
mcqFiles ==
    [t \in {moduleConfig[k].topic : k \in DOMAIN moduleConfig} |-> TopicFile(ToLowerCase(t))]

\* const dataCache: MCQData = {}
LoaderIdle ==
    /\ dataCache = [t \in LoaderTopics |-> [has |-> FALSE, list |-> <<>>]]
    /\ loaderCalls = [t \in LoaderTopics |-> [invoked |-> 0, succeeded |-> 0, atSuccess |-> 0]]

\* loadTopicData up to its await: the cached list if there is one, the empty
\* list if the topic has no loader, else the loader is invoked
Load_Call(p) ==
    /\ proc[p].pc = "idle"
    /\ runs < MaxCalls
    /\ \E t \in LoaderTopics :
          LET call == [IdleProc EXCEPT !.script = "loadTopicData", !.topic = t]
          IN  IF dataCache[t].has
              THEN /\ proc' = [proc EXCEPT ![p] =
                                  [call EXCEPT !.pc = "done", !.data = dataCache[t].list,
                                               !.how = "cached"]]
                   /\ UNCHANGED loaderCalls
              ELSE IF t \notin DOMAIN mcqFiles
              THEN /\ proc' = [proc EXCEPT ![p] =
                                  [call EXCEPT !.pc = "done", !.data = <<>>,
                                               !.how = "noLoader"]]
                   /\ UNCHANGED loaderCalls
              ELSE /\ proc' = [proc EXCEPT ![p] = [call EXCEPT !.pc = "loading"]]
                   /\ loaderCalls' = [loaderCalls EXCEPT ![t].invoked = @ + 1]
    /\ runs' = runs + 1
    /\ UNCHANGED <<store, assets, dataCache, hist>>

\* a catch that caches the empty list it returns
Load_RejectCaching(p) ==
    LET pr == proc[p]
    IN  /\ pr.script = "loadTopicData"
        /\ pr.pc = "loading"
        /\ dataCache' = [dataCache EXCEPT ![pr.topic] = [has |-> TRUE, list |-> <<>>]]
        /\ proc' = [proc EXCEPT ![p] =
                       [pr EXCEPT !.pc = "done", !.data = <<>>, !.how = "failed",
                                  !.errors = @ + 1]]
        /\ UNCHANGED <<store, assets, loaderCalls, runs, hist>>

\* the import resolves: questions = module[dataName] || [] (an asset without
\* that export is an empty list); dataCache[topic] = questions; return questions
Load_Resolve(p) ==
    LET pr == proc[p]
        t == pr.topic
        questionList == fileData[mcqFiles[t]]
    IN  /\ pr.script = "loadTopicData"
        /\ pr.pc = "loading"
        /\ dataCache' = [dataCache EXCEPT ![t] = [has |-> TRUE, list |-> questionList]]
        /\ loaderCalls' =
               [loaderCalls EXCEPT ![t] =
                   [@ EXCEPT !.succeeded = @ + 1,
                             !.atSuccess = IF loaderCalls[t].succeeded = 0
                                           THEN loaderCalls[t].invoked ELSE @]]
        /\ proc' = [proc EXCEPT ![p] =
                       [pr EXCEPT !.pc = "done", !.data = questionList, !.how = "loaded"]]
        /\ UNCHANGED <<store, assets, runs, hist>>

\* the import rejects: catch (error) { console.error(...); return [] }
Load_Reject(p) ==
    LET pr == proc[p]
    IN  /\ pr.script = "loadTopicData"
        /\ pr.pc = "loading"
        /\ proc' = [proc EXCEPT ![p] =
                       [pr EXCEPT !.pc = "done", !.data = <<>>, !.how = "failed",
                                  !.errors = @ + 1]]
        /\ UNCHANGED <<store, env, runs, hist>>

(***************************************************************************)
(* The end of a run, the initial states and the specification.             *)
(***************************************************************************)
\* what a finished run leaves: its partition, whether it met no store error,
\* and the partition's content
RunSummary(pr) ==
    [script |-> pr.script, moduleId |-> RunModule(pr), topic |-> RunTopic(pr),
     clean |-> (pr.pc = "done" /\ pr.errors = 0),
     content |-> Content(questions, options, RunModule(pr), RunTopic(pr))]

\* the script has ended; the next run may start
Return(p) ==
    /\ proc[p].pc \in {"done", "failed"}
    /\ hist' = Append(hist, RunSummary(proc[p]))
    /\ proc' = [proc EXCEPT ![p] = IdleProc]
    /\ UNCHANGED <<store, env, runs>>

\* the runs of the model: one script at a time
Procs == {1}

\* the partitions that may hold rows of an earlier seeding
InitKeys == << <<"focs", "FOCS2">>, <<"focs", "FOCS3">>, <<"anatomy", "Anatomy">> >>

\* those of them a run may be started on
TargetKeys ==
    {k \in DOMAIN InitKeys :
        \E c \in Targets : c.moduleId = InitKeys[k][1] /\ c.topic = InitKeys[k][2]}

\* one old question with two options per seeded partition, and one attempt on
\* each attempted partition's question and first option
InitQuestions(seeded) ==
    {QRow(k, InitKeys[k][1], InitKeys[k][2], "Old") : k \in seeded}

InitOptions(seeded) ==
    {ORow(2 * k - 1, k, "X", TRUE) : k \in seeded} \cup {ORow(2 * k, k, "Y", FALSE) : k \in seeded}

InitAttempts(attempted) == {ARow(k, k, 2 * k - 1) : k \in attempted}

Init ==
    /\ \E seeded \in SUBSET DOMAIN InitKeys :
          \E attempted \in SUBSET (seeded \cap TargetKeys) :
             /\ Cardinality(attempted) <= 1
             /\ questions = InitQuestions(seeded)
             /\ options = InitOptions(seeded)
             /\ attempts = InitAttempts(attempted)
             \* with no attempt in the store the schema's choice shows nowhere
             /\ attemptsFk \in (IF attempted = {} THEN {TRUE} ELSE BOOLEAN)
    /\ nextQid = Len(InitKeys) + 1
    /\ nextOid = 2 * Len(InitKeys) + 1
    \* every source file holds the same list
    /\ \E l \in CandidateLists : fileData = [f \in Files |-> l]
    /\ batchSizeOf = CodeBatchSizes
    /\ proc = [p \in Procs |-> IdleProc]
    /\ runs = 0
    /\ hist = <<>>
    /\ LoaderIdle

Next ==
    \E p \in Procs :
        \/ MCQ_Start(p)
        \/ MCQ_NoQuestions(p)
        \/ MCQ_SelectExisting(p)
        \/ MCQ_DeleteOptions(p)
        \/ MCQ_DeleteQuestions(p)
        \/ MCQ_SkipInvalid(p)
        \/ MCQ_InsertQuestion(p)
        \/ MCQ_InsertOption(p)
        \/ MCQ_Finish(p)
        \/ Mod_Start(p)
        \/ Mod_NoQuestions(p)
        \/ Mod_Connect(p)
        \/ Mod_BeginClear(p)
        \/ Mod_DeleteOptions(p)
        \/ Mod_DeleteQuestions(p)
        \/ Mod_CommitClear(p)
        \/ Mod_BeginBatch(p)
        \/ Mod_SkipInvalid(p)
        \/ Mod_InsertQuestion(p)
        \/ Mod_InsertOption(p)
        \/ Mod_CommitBatch(p)
        \/ Mod_Finish(p)
        \/ Mod_Rollback(p)
        \/ Return(p)

Spec == Init /\ [][Next]_vars

(***************************************************************************)
(* Initial states of the further specifications: a store seeded on one of  *)
(* the given sets of partitions, source files that hold one of the given   *)
(* lists, and the given batch sizes.                                       *)
(***************************************************************************)
InitStore(seededSets, lists, sizes) ==
    /\ \E seeded \in seededSets :
          \E attempted \in SUBSET (seeded \cap TargetKeys) :
             /\ Cardinality(attempted) <= 1
             /\ questions = InitQuestions(seeded)
             /\ options = InitOptions(seeded)
             /\ attempts = InitAttempts(attempted)
             /\ attemptsFk \in (IF attempted = {} THEN {TRUE} ELSE BOOLEAN)
    /\ nextQid = Len(InitKeys) + 1
    /\ nextOid = 2 * Len(InitKeys) + 1
    /\ \E l \in lists : fileData = [f \in Files |-> l]
    /\ batchSizeOf \in sizes
    /\ proc = [p \in Procs |-> IdleProc]
    /\ runs = 0
    /\ hist = <<>>
    /\ LoaderIdle

(***************************************************************************)
(* The importers that work in transactions: import-module.js and the       *)
(* direct import of FOCS2.                                                 *)
(***************************************************************************)
InitDirect == InitStore({{}, {1, 2}}, CandidateLists, {CodeBatchSizes})

NextDirect ==
    \E p \in Procs :
        \/ Direct_Start(p)
        \/ Direct_NoQuestions(p)
        \/ Direct_Connect(p)
        \/ Direct_Begin(p)
        \/ Direct_DeleteOptions(p)
        \/ Direct_DeleteQuestions(p)
        \/ Direct_SkipInvalid(p)
        \/ Direct_InsertQuestion(p)
        \/ Direct_InsertOption(p)
        \/ Direct_Commit(p)
        \/ Direct_Rollback(p)
        \/ Mod_Start(p)
        \/ Mod_NoQuestions(p)
        \/ Mod_Connect(p)
        \/ Mod_BeginClear(p)
        \/ Mod_DeleteOptions(p)
        \/ Mod_DeleteQuestions(p)
        \/ Mod_CommitClear(p)
        \/ Mod_BeginBatch(p)
        \/ Mod_SkipInvalid(p)
        \/ Mod_InsertQuestion(p)
        \/ Mod_InsertOption(p)
        \/ Mod_CommitBatch(p)
        \/ Mod_Finish(p)
        \/ Mod_Rollback(p)
        \/ Return(p)

SpecDirect == InitDirect /\ [][NextDirect]_vars

(***************************************************************************)
(* The cleanup pass, run on a store that holds questions of valid and of   *)
(* invalid keys, each with two options, and attempts on some of them.      *)
(***************************************************************************)
\* the questions the store may hold: (moduleId, topic, text)
CleanupRows ==
    << <<"focs", "FOCS2", "Old">>,
       <<"focs", "FOCS2", "Which sample tube is used for a blood count?">>,
       <<"focs", "BCR1", "Old">>,
       <<"quiz", "FOCS2", "Sample question 1">>,
       <<"focs", "General", "Old">> >>

\* most attempts in the store
MaxAttempts == 2

InitCleanup ==
    /\ \E held \in SUBSET DOMAIN CleanupRows :
          \E attempted \in SUBSET held :
             /\ Cardinality(attempted) <= MaxAttempts
             /\ questions =
                    {QRow(k, CleanupRows[k][1], CleanupRows[k][2], CleanupRows[k][3]) : k \in held}
             /\ options = InitOptions(held)
             /\ attempts = InitAttempts(attempted)
             /\ attemptsFk \in (IF attempted = {} THEN {TRUE} ELSE BOOLEAN)
    /\ nextQid = Len(CleanupRows) + 1
    /\ nextOid = 2 * Len(CleanupRows) + 1
    /\ fileData = [f \in Files |-> <<>>]
    /\ batchSizeOf = CodeBatchSizes
    /\ proc = [p \in Procs |-> IdleProc]
    /\ runs = 0
    /\ hist = <<>>
    /\ LoaderIdle

NextCleanup ==
    \E p \in Procs :
        \/ Cleanup_Start(p)
        \/ Cleanup_SelectQuestions(p)
        \/ Cleanup_SelectOptions(p)
        \/ Cleanup_DeleteOptionAttempts(p)
        \/ Cleanup_DeleteQuestionAttempts(p)
        \/ Cleanup_DeleteOptions(p)
        \/ Cleanup_DeleteQuestion(p)
        \/ Cleanup_Finish(p)
        \/ Return(p)

SpecCleanup == InitCleanup /\ [][NextCleanup]_vars

(***************************************************************************)
(* One command, with arguments that name a configured partition or not.    *)
(***************************************************************************)
CommandLists == {<<>>, <<cGood2>>, <<cGood3, cNoIndex>>}

InitCommand == InitStore({{}, {1, 3}}, CommandLists, {CodeBatchSizes})

NextCommand ==
    \E p \in Procs :
        \/ MCQ_Main(p)
        \/ ISM_Main(p)
        \/ Mod_Main(p)
        \/ MCQ_NoQuestions(p)
        \/ MCQ_SelectExisting(p)
        \/ MCQ_DeleteOptions(p)
        \/ MCQ_DeleteQuestions(p)
        \/ MCQ_SkipInvalid(p)
        \/ MCQ_InsertQuestion(p)
        \/ MCQ_InsertOption(p)
        \/ MCQ_Finish(p)
        \/ Mod_NoQuestions(p)
        \/ Mod_Connect(p)
        \/ Mod_BeginClear(p)
        \/ Mod_DeleteOptions(p)
        \/ Mod_DeleteQuestions(p)
        \/ Mod_CommitClear(p)
        \/ Mod_BeginBatch(p)
        \/ Mod_SkipInvalid(p)
        \/ Mod_InsertQuestion(p)
        \/ Mod_InsertOption(p)
        \/ Mod_CommitBatch(p)
        \/ Mod_Finish(p)
        \/ Mod_Rollback(p)
        \/ Return(p)

SpecCommand == InitCommand /\ [][NextCommand]_vars

(***************************************************************************)
(* Two scripts run at the same time, each once: their queries interleave   *)
(* in any order.  Each source file holds its own list.                     *)
(***************************************************************************)
Procs2 == {1, 2}

ConcLists == {<<>>, <<cGood2>>, <<cGood3, cNoText>>}

\* every partition seeded, no attempt
InitConc ==
    /\ questions = InitQuestions(DOMAIN InitKeys)
    /\ options = InitOptions(DOMAIN InitKeys)
    /\ attempts = {}
    /\ attemptsFk = TRUE
    /\ nextQid = Len(InitKeys) + 1
    /\ nextOid = 2 * Len(InitKeys) + 1
    /\ \E l1 \in ConcLists : \E l2 \in ConcLists :
          fileData = [f \in Files |-> IF f = "focs2.js" THEN l1 ELSE l2]
    /\ batchSizeOf = CodeBatchSizes
    /\ proc = [p \in Procs2 |-> IdleProc]
    /\ runs = 0
    /\ hist = <<>>
    /\ LoaderIdle

NextConc ==
    \E p \in Procs2 :
        \/ MCQ_Start(p)
        \/ MCQ_NoQuestions(p)
        \/ MCQ_SelectExisting(p)
        \/ MCQ_DeleteOptions(p)
        \/ MCQ_DeleteQuestions(p)
        \/ MCQ_SkipInvalid(p)
        \/ MCQ_InsertQuestion(p)
        \/ MCQ_InsertOption(p)
        \/ MCQ_Finish(p)
        \/ Mod_Start(p)
        \/ Mod_NoQuestions(p)
        \/ Mod_Connect(p)
        \/ Mod_BeginClear(p)
        \/ Mod_DeleteOptions(p)
        \/ Mod_DeleteQuestions(p)
        \/ Mod_CommitClear(p)
        \/ Mod_BeginBatch(p)
        \/ Mod_SkipInvalid(p)
        \/ Mod_InsertQuestion(p)
        \/ Mod_InsertOption(p)
        \/ Mod_CommitBatch(p)
        \/ Mod_Finish(p)
        \/ Mod_Rollback(p)

SpecConc == InitConc /\ [][NextConc]_vars

(***************************************************************************)
(* The importers run with batch sizes from 1 on, on lists long enough to   *)
(* be cut into several batches.                                            *)
(***************************************************************************)
\* largest batch size tried
MaxBatch == 3

\* longest list cut into batches
MaxBatchLen == 3

BatchSizes == {[importMCQ |-> n, importModule |-> n] : n \in 1..MaxBatch}

BatchLists == UNION {[1..n -> {cGood2, cNoText}] : n \in 0..MaxBatchLen}

\* the store holds rows of another partition; the second run of a behaviour
\* clears what the first one inserted
InitBatch == InitStore({{2}}, BatchLists, BatchSizes)

SpecBatch == InitBatch /\ [][Next]_vars

(***************************************************************************)
(* importMCQ.ts run with no argument, over all of moduleConfig.  At most   *)
(* MaxFiles source files hold questions, the other files are missing or    *)
(* empty.                                                                  *)
(***************************************************************************)
MaxFiles == 2

AllLists == {<<cGood2>>, <<cNoText, cGood3>>}

InitAll ==
    /\ questions = InitQuestions(DOMAIN InitKeys)
    /\ options = InitOptions(DOMAIN InitKeys)
    /\ attempts = {}
    /\ attemptsFk = TRUE
    /\ nextQid = Len(InitKeys) + 1
    /\ nextOid = 2 * Len(InitKeys) + 1
    /\ \E full \in SUBSET Files :
          /\ Cardinality(full) <= MaxFiles
          /\ \E l \in AllLists : fileData = [f \in Files |-> IF f \in full THEN l ELSE <<>>]
    /\ batchSizeOf = CodeBatchSizes
    /\ proc = [p \in Procs |-> IdleProc]
    /\ runs = 0
    /\ hist = <<>>
    /\ LoaderIdle

NextAll ==
    \E p \in Procs :
        \/ MCQ_MainAll(p)
        \/ MCQ_NextTopic(p)
        \/ MCQ_NoQuestions(p)
        \/ MCQ_SelectExisting(p)
        \/ MCQ_DeleteOptions(p)
        \/ MCQ_DeleteQuestions(p)
        \/ MCQ_SkipInvalid(p)
        \/ MCQ_InsertQuestion(p)
        \/ MCQ_InsertOption(p)
        \/ MCQ_Finish(p)

SpecAll == InitAll /\ [][NextAll]_vars

(***************************************************************************)
(* The reseeds that delete and insert without a commit in between:         *)
(* importMCQ.ts (no transaction) and the direct import of FOCS2 (one       *)
(* transaction).                                                           *)
(***************************************************************************)
InitOrder == InitStore({{}, {1, 2}}, CommandLists, {CodeBatchSizes})

NextOrder ==
    \E p \in Procs :
        \/ MCQ_Start(p)
        \/ MCQ_NoQuestions(p)
        \/ MCQ_SelectExisting(p)
        \/ MCQ_DeleteOptions(p)
        \/ MCQ_DeleteQuestions(p)
        \/ MCQ_SkipInvalid(p)
        \/ MCQ_InsertQuestion(p)
        \/ MCQ_InsertOption(p)
        \/ MCQ_Finish(p)
        \/ Direct_Start(p)
        \/ Direct_NoQuestions(p)
        \/ Direct_Connect(p)
        \/ Direct_Begin(p)
        \/ Direct_DeleteOptions(p)
        \/ Direct_DeleteQuestions(p)
        \/ Direct_SkipInvalid(p)
        \/ Direct_InsertQuestion(p)
        \/ Direct_InsertOption(p)
        \/ Direct_Commit(p)
        \/ Direct_Rollback(p)
        \/ Return(p)

SpecOrder == InitOrder /\ [][NextOrder]_vars

(***************************************************************************)
(* The loader of the web client: calls of loadTopicData, two of which may  *)
(* be in flight at once.                                                   *)
(***************************************************************************)
InitLoader ==
    /\ questions = {}
    /\ options = {}
    /\ attempts = {}
    /\ attemptsFk = TRUE
    /\ nextQid = 1
    /\ nextOid = 1
    /\ \E l1 \in CommandLists : \E l2 \in CommandLists :
          fileData = [f \in Files |-> IF f = "focs2.js" THEN l1 ELSE l2]
    /\ batchSizeOf = CodeBatchSizes
    /\ proc = [p \in Procs2 |-> IdleProc]
    /\ runs = 0
    /\ hist = <<>>
    /\ LoaderIdle

NextLoader ==
    \E p \in Procs2 :
        \/ Load_Call(p)
        \/ Load_Resolve(p)
        \/ Load_Reject(p)
        \/ Return(p)

SpecLoader == InitLoader /\ [][NextLoader]_vars

(***************************************************************************)
(* Vocabulary of the properties.                                           *)
(***************************************************************************)
\* a record that meets the input contract: non-empty text, a non-empty sequence
\* of options and a correctIndex that is a position of it
SpecValid(c) ==
    /\ c.question # ""
    /\ c.isArray
    /\ Len(c.options) > 0
    /\ c.hasIndex
    /\ c.correctIndex \in 0..(Len(c.options) - 1)

\* a record whose options is the empty array
HasEmptyOptions(c) == c.isArray /\ Len(c.options) = 0

\* a record whose correctIndex is no position of its options
IndexOutOfRange(c) ==
    c.isArray /\ c.hasIndex /\ (c.correctIndex < 0 \/ c.correctIndex >= Len(c.options))

Started(pr) == pr.script # "none"

Ended(pr) == pr.pc \in {"done", "failed"}

\* the questions now in the partition of run pr
RunPartition(pr) == PartitionQuestions(questions, RunModule(pr), RunTopic(pr))

\* the partition of run pr holds the very rows it held when the run started
InPreState(pr) ==
    /\ RunPartition(pr) = PartitionQuestions(pr.pre.questions, RunModule(pr), RunTopic(pr))
    /\ \A q \in RunPartition(pr) :
          QuestionOptions(options, q.id) = QuestionOptions(pr.pre.options, q.id)

\* the content a list gives when each of the given records becomes one question
\* with one option per answer choice, the one at correctIndex flagged
RecordContent(c) ==
    [text |-> c.question,
     options |-> [k \in 1..Len(c.options) |->
                     [text |-> c.options[k], isCorrect |-> (k - 1 = c.correctIndex)]]]

RECURSIVE ListContent(_, _)
ListContent(data, keep) ==
    IF data = <<>> THEN <<>>
    ELSE (IF 1 \in keep THEN <<RecordContent(Head(data))>> ELSE <<>>)
         \o ListContent(Tail(data), {k - 1 : k \in keep \ {1}})

AcceptedPositions(data) == {k \in DOMAIN data : IsAccepted(data[k])}

ValidPositions(data) == {k \in DOMAIN data : SpecValid(data[k])}

\* the partition of run pr is fully reseeded from its list
FullyReseeded(pr) ==
    LET now == Content(questions, options, RunModule(pr), RunTopic(pr))
    IN  \/ now = ListContent(pr.data, AcceptedPositions(pr.data))
        \/ now = ListContent(pr.data, ValidPositions(pr.data))

\* record k of run pr is in the store: its question and all its options
Inserted(pr, k) ==
    \E pair \in pr.origin :
        /\ pair[2] = k
        /\ pair[1] \in Ids(questions)
        /\ OptionContent(options, pair[1]) = RecordContent(pr.data[k]).options

\* no attempt points at a question or an option that is not in the store
NoDanglingAttempt ==
    \A a \in attempts : a.questionId \in Ids(questions) /\ a.selectedOptionId \in Ids(options)

\* the attempts that, when run pr started, referenced a row of its partition
ReferencingAttempts(pr) ==
    LET oldQ == Ids(PartitionQuestions(pr.pre.questions, RunModule(pr), RunTopic(pr)))
        oldO == {o.id : o \in {r \in pr.pre.options : r.questionId \in oldQ}}
    IN  {a \in pr.pre.attempts : a.questionId \in oldQ \/ a.selectedOptionId \in oldO}

SetMin(S) == CHOOSE x \in S : \A y \in S : x <= y

(***************************************************************************)
(* C1: after a reseed that completed with no store error the partition     *)
(* holds exactly as many questions as the list has valid candidates.       *)
(* Stated as the claim has it; the importers do not meet it.               *)
(***************************************************************************)
C1_CountIsValidCandidates ==
    \A p \in DOMAIN proc :
        (proc[p].pc = "done" /\ proc[p].errors = 0 /\ Len(proc[p].data) > 0)
            => Cardinality(RunPartition(proc[p])) = Cardinality(ValidPositions(proc[p].data))

(***************************************************************************)
(* C2: after a reseed of a list the import step accepts, every question of *)
(* the partition has exactly one option flagged correct, the one at        *)
(* position correctIndex of its source record.  Stated as the claim has    *)
(* it; the importers do not meet it.                                       *)
(***************************************************************************)
C2_ExactlyOneCorrectOption ==
    \A p \in DOMAIN proc :
        LET pr == proc[p]
        IN  (pr.pc = "done" /\ pr.errors = 0 /\ Len(pr.data) > 0
                /\ AcceptedPositions(pr.data) = DOMAIN pr.data)
            => \A q \in RunPartition(pr) :
                  LET os == QuestionOptions(options, q.id)
                      correct == {o \in os : o.isCorrect}
                  IN  /\ Cardinality(correct) = 1
                      /\ \E pair \in pr.origin :
                            /\ pair[1] = q.id
                            /\ \A o \in correct :
                                  Cardinality({x \in os : x.id < o.id})
                                      = pr.data[pair[2]].correctIndex

(***************************************************************************)
(* C3: two reseeds of one partition from the same list that both complete  *)
(* with no store error leave the same content (texts, options, is-correct  *)
(* flags, in order), ids apart.                                            *)
(***************************************************************************)
C3_ReseedIdempotent ==
    \A a \in DOMAIN hist : \A b \in DOMAIN hist :
        (a < b /\ hist[a].clean /\ hist[b].clean
            /\ hist[a].moduleId = hist[b].moduleId /\ hist[a].topic = hist[b].topic)
        => hist[a].content = hist[b].content

C3_Witness ==
    /\ Len(hist) >= 2
    /\ hist[1].clean /\ hist[2].clean
    /\ hist[1].moduleId = hist[2].moduleId /\ hist[1].topic = hist[2].topic
    /\ Len(hist[2].content) >= 2
    /\ hist[1].script = "importMCQ" /\ hist[2].script = "importMCQ"

(***************************************************************************)
(* C4: when a reseed has ended, its partition is in its pre-reseed state   *)
(* or fully reseeded, and in its pre-reseed state if a store error         *)
(* occurred.  Stated as the claim has it; the importers do not meet it.    *)
(***************************************************************************)
C4_AllOrNothing ==
    \A p \in DOMAIN proc :
        LET pr == proc[p]
        IN  (Started(pr) /\ Ended(pr))
            => /\ InPreState(pr) \/ FullyReseeded(pr)
               /\ pr.errors > 0 => InPreState(pr)

(***************************************************************************)
(* C5: a reseed of a partition whose rows were referenced by attempts,     *)
(* when it has ended without any failure other than the store refusing a   *)
(* query, has removed those attempts, and no attempt is left pointing at a *)
(* missing row.  Stated as the claim has it; the importers do not meet it. *)
(***************************************************************************)
C5_AttemptsRemoved ==
    \A p \in DOMAIN proc :
        LET pr == proc[p]
        IN  (Started(pr) /\ Ended(pr) /\ Len(pr.data) > 0 /\ pr.errors = pr.fkErrors
                /\ ReferencingAttempts(pr) # {})
            => /\ NoDanglingAttempt
               /\ ReferencingAttempts(pr) \cap attempts = {}

(***************************************************************************)
(* C6: in every state of a reseed, every question outside the reseeded     *)
(* partition is a row that was there when the reseed started, still there, *)
(* with the same options.                                                  *)
(***************************************************************************)
C6_OtherPartitionsUnchanged ==
    \A p \in DOMAIN proc :
        LET pr == proc[p]
        IN  Started(pr)
            => \A q \in questions \cup pr.pre.questions :
                  ~(q.moduleId = RunModule(pr) /\ q.topic = RunTopic(pr))
                  => /\ q \in questions
                     /\ q \in pr.pre.questions
                     /\ QuestionOptions(options, q.id) = QuestionOptions(pr.pre.options, q.id)

C6_Witness ==
    \E p \in DOMAIN proc :
        LET pr == proc[p]
        IN  /\ pr.pc = "done" /\ pr.errors = 0
            /\ ~InPreState(pr)
            /\ PartitionQuestions(pr.pre.questions, RunModule(pr), RunTopic(pr)) # {}
            /\ \E q \in questions :
                  /\ q.moduleId = RunModule(pr)
                  /\ q.topic # RunTopic(pr)
                  /\ QuestionOptions(options, q.id) # {}

(***************************************************************************)
(* C7: a list of n records of which exactly one has an empty options array *)
(* (the others valid) yields n - 1 questions, none for that record.        *)
(* Stated as the claim has it; the importers do not meet it.               *)
(***************************************************************************)
C7_EmptyOptionsSkipped ==
    \A p \in DOMAIN proc :
        LET pr == proc[p]
            empty == {k \in DOMAIN pr.data : HasEmptyOptions(pr.data[k])}
        IN  (pr.pc = "done" /\ pr.errors = 0 /\ Cardinality(empty) = 1
                /\ \A k \in DOMAIN pr.data \ empty : SpecValid(pr.data[k]))
            => /\ Cardinality(RunPartition(pr)) = Len(pr.data) - 1
               /\ \A pair \in pr.origin : pair[2] \notin empty

(***************************************************************************)
(* C8: no question row (and so no option row) is inserted for a candidate  *)
(* whose correctIndex is no position of its options.  Stated as the claim  *)
(* has it; the importers do not meet it.                                   *)
(***************************************************************************)
C8_BadIndexSkipped ==
    \A p \in DOMAIN proc :
        \A pair \in proc[p].origin :
            pair[1] \in Ids(questions) => ~IndexOutOfRange(proc[p].data[pair[2]])

(***************************************************************************)
(* C9: when a reseed has ended, every question it inserted that is in the  *)
(* store has all the options of its source record.  Stated as the claim    *)
(* has it; the ORM based importer does not meet it.                        *)
(***************************************************************************)
C9_RecordAllOrNothing ==
    \A p \in DOMAIN proc :
        LET pr == proc[p]
        IN  Ended(pr)
            => \A pair \in pr.origin :
                  pair[1] \in Ids(questions)
                  => Cardinality(QuestionOptions(options, pair[1]))
                        = Len(pr.data[pair[2]].options)

(***************************************************************************)
(* C10, as claimed: when the insert of a candidate has failed, the run     *)
(* still completes, every later valid candidate that did not fail itself   *)
(* is inserted, and the count leaves the failed candidates out.            *)
(***************************************************************************)
C10_FailureSkipped ==
    \A p \in DOMAIN proc :
        LET pr == proc[p]
        IN  (Ended(pr) /\ pr.failedAt # {})
            => /\ pr.pc = "done"
               /\ \A k \in ValidPositions(pr.data) :
                     (k > SetMin(pr.failedAt) /\ k \notin pr.failedAt) => Inserted(pr, k)

(***************************************************************************)
(* C10, amended: in importMCQ.ts the failure is caught and the loop goes   *)
(* on: every candidate that passes the required-fields check and met no    *)
(* store error is inserted with all its options, and the returned count is *)
(* the number of those.  In import-module.js the failure ends the import:  *)
(* the run fails, the open batch is rolled back and no later candidate is  *)
(* inserted.                                                               *)
(***************************************************************************)
C10_FailureSkippedPerScript ==
    \A p \in DOMAIN proc :
        LET pr == proc[p]
            passed == AcceptedPositions(pr.data) \ pr.failedAt
        IN  (Ended(pr) /\ pr.failedAt # {})
            => /\ pr.script = "importMCQ"
                  => /\ pr.pc = "done"
                     /\ \A k \in passed : Inserted(pr, k)
                     /\ pr.result = Cardinality(passed)
               /\ pr.script = "importModule"
                  => /\ pr.pc = "failed"
                     /\ \A pair \in pr.origin :
                           /\ pair[2] <= SetMin(pr.failedAt)
                           /\ pair[2] > ModStart(pr) => pair[1] \notin Ids(questions)
                           /\ pair[2] <= ModStart(pr) => pair[1] \in Ids(questions)

C10_Witness ==
    \E p \in DOMAIN proc :
        LET pr == proc[p]
        IN  /\ pr.script = "importMCQ"
            /\ pr.pc = "done"
            /\ pr.failedAt # {}
            /\ \E k \in DOMAIN pr.data : k > SetMin(pr.failedAt) /\ Inserted(pr, k)

(***************************************************************************)
(* C11: a run whose reseed transaction failed and was rolled back ends     *)
(* with an error outcome, never normally.  Stated as the claim has it; the *)
(* direct import of FOCS2 does not meet it.                                *)
(***************************************************************************)
C11_RollbackReported ==
    \A p \in DOMAIN proc :
        (Ended(proc[p]) /\ proc[p].rolledBack) => proc[p].pc = "failed"

(***************************************************************************)
(* C12: the count a reseed's import step returns is the number of          *)
(* questions it inserted: n - k for a list of n candidates of which k were *)
(* skipped by the required-fields check.  Stated as the claim has it;      *)
(* import-module.js does not meet it.                                      *)
(***************************************************************************)
C12_CountIsInserted ==
    \A p \in DOMAIN proc :
        LET pr == proc[p]
            skipped == DOMAIN pr.data \ AcceptedPositions(pr.data)
        IN  (pr.pc = "done" /\ pr.errors = 0 /\ Len(pr.data) > 0)
            => /\ pr.result = Cardinality(pr.origin)
               /\ pr.result = Len(pr.data) - Cardinality(skipped)

\* the (moduleId, topic) pairs that are configured
ValidPairs == {<<moduleConfig[k].moduleId, moduleConfig[k].topic>> : k \in DOMAIN moduleConfig}

HasValidKey(q) == <<q.moduleId, q.topic>> \in ValidPairs

\* no option points at a question that is not in the store
NoDanglingOption == \A o \in options : o.questionId \in Ids(questions)

(***************************************************************************)
(* C13: in every state of a cleanup, every question of a valid key that    *)
(* was in the store when the cleanup started is still there, whatever its  *)
(* text.  Stated as the claim has it; cleanupDatabase does not meet it.    *)
(***************************************************************************)
C13_ValidKeySurvives ==
    \A p \in DOMAIN proc :
        proc[p].script = "cleanup"
        => \A q \in proc[p].pre.questions : HasValidKey(q) => q \in questions

(***************************************************************************)
(* C14: after a cleanup that completed with no store error, no question    *)
(* whose (moduleId, topic) pair is not a valid pair is left.  Stated as    *)
(* the claim has it; cleanupDatabase does not meet it.                     *)
(***************************************************************************)
C14_InvalidPairRemoved ==
    \A p \in DOMAIN proc :
        (proc[p].script = "cleanup" /\ proc[p].pc = "done" /\ proc[p].errors = 0)
        => \A q \in questions : HasValidKey(q)

(***************************************************************************)
(* C15: in every state of a cleanup, no attempt references a missing       *)
(* option or question and no option a missing question, and the store     *)
(* never had to refuse a delete of the cleanup: the attempts on a removed  *)
(* question go before its options, and its options before the question.   *)
(***************************************************************************)
C15_CleanupCascadeOrder ==
    /\ NoDanglingAttempt
    /\ NoDanglingOption
    /\ \A p \in DOMAIN proc : proc[p].script = "cleanup" => proc[p].fkErrors = 0

C15_Witness ==
    \E p \in DOMAIN proc :
        LET pr == proc[p]
        IN  /\ pr.script = "cleanup" /\ pr.pc = "done" /\ pr.errors = 0
            /\ \E q \in pr.pre.questions \ questions :
                  /\ \E a \in pr.pre.attempts : a.questionId = q.id
                  /\ \E o \in pr.pre.options : o.questionId = q.id
            /\ \E q \in questions : \E a \in attempts : a.questionId = q.id

\* the arguments of a command name a configured partition, letter case apart
\* (a single argument: a configured topic or module id)
KeyMatches(args) ==
    \E k \in DOMAIN moduleConfig :
        LET c == moduleConfig[k]
        IN  IF Len(args) = 2
            THEN /\ c.moduleId = ToLowerCase(args[1])
                 /\ ToLowerCase(c.topic) = ToLowerCase(args[2])
            ELSE \/ ToLowerCase(c.topic) = ToLowerCase(args[1])
                 \/ c.moduleId = ToLowerCase(args[1])

(***************************************************************************)
(* C16: a command whose arguments match no configured (module, topic)      *)
(* deletes and inserts nothing, in any of its states, and ends having      *)
(* reported the available keys.  Stated as the claim has it; importMCQ.ts  *)
(* and import-module.js do not meet it.                                    *)
(***************************************************************************)
C16_UnknownKeyRejected ==
    \A p \in DOMAIN proc :
        LET pr == proc[p]
        IN  (pr.args # <<>> /\ ~KeyMatches(pr.args))
            => /\ questions = pr.pre.questions
               /\ options = pr.pre.options
               /\ pr.origin = {}
               /\ Ended(pr) => pr.reported = "keys"

(***************************************************************************)
(* C20: importSpecificModule run with a documented (moduleId, topic) pair  *)
(* is not rejected by the check of its arguments, and the partition it     *)
(* reseeds is that pair.  Stated as the claim has it; the script does not  *)
(* meet it.                                                                *)
(***************************************************************************)
C20_DocumentedPairsAccepted ==
    \A p \in DOMAIN proc :
        LET pr == proc[p]
        IN  (pr.script = "importSpecificModule" /\ pr.args \in ValidPairs)
            => /\ pr.reported # "keys"
               /\ <<pr.moduleId, pr.topic>> = pr.args

\* run pr completed with no store error on a list that is not empty
Completed(pr) == pr.pc = "done" /\ pr.errors = 0 /\ Len(pr.data) > 0

\* what a reseed run alone leaves in its partition: the records of its list
\* that pass the required-fields check, in the order of the list
AloneContent(pr) == ListContent(pr.data, AcceptedPositions(pr.data))

\* row q is in the partition of run pr
InRunPartition(q, pr) == q.moduleId = RunModule(pr) /\ q.topic = RunTopic(pr)

(***************************************************************************)
(* C17: when two reseeds of different partitions, run at the same time,    *)
(* have both completed with no store error, each partition holds what its  *)
(* reseed leaves when run alone (the records of its own list, in order),   *)
(* and the rows of the other partitions are those of before.               *)
(***************************************************************************)
C17_DisjointReseedsCommute ==
    \A p \in DOMAIN proc : \A r \in DOMAIN proc :
        LET pr == proc[p]
            rr == proc[r]
        IN  (p # r /\ Completed(pr) /\ Completed(rr)
                /\ <<RunModule(pr), RunTopic(pr)>> # <<RunModule(rr), RunTopic(rr)>>)
            => /\ Content(questions, options, RunModule(pr), RunTopic(pr)) = AloneContent(pr)
               /\ \A q \in questions \cup pr.pre.questions :
                     (~InRunPartition(q, pr) /\ ~InRunPartition(q, rr))
                     => /\ q \in questions
                        /\ q \in pr.pre.questions
                        /\ QuestionOptions(options, q.id) = QuestionOptions(pr.pre.options, q.id)

C17_Witness ==
    \E p \in DOMAIN proc : \E r \in DOMAIN proc :
        LET pr == proc[p]
            rr == proc[r]
        IN  /\ p # r /\ Completed(pr) /\ Completed(rr)
            /\ pr.script = "importMCQ" /\ rr.script = "importModule"
            /\ <<RunModule(pr), RunTopic(pr)>> # <<RunModule(rr), RunTopic(rr)>>
            \* their inserts interleaved: an option of one between two of the other
            /\ \E a \in pr.origin : \E b \in rr.origin :
                  \E o1 \in QuestionOptions(options, a[1]) :
                     \E o2 \in QuestionOptions(options, b[1]) :
                        \E o3 \in QuestionOptions(options, a[1]) :
                           o1.id < o2.id /\ o2.id < o3.id

\* the count a run alone returns: importMCQ.ts counts the inserted questions,
\* import-module.js returns the length of the list
AloneCount(pr) ==
    IF pr.script = "importModule" THEN Len(pr.data)
    ELSE Cardinality(AcceptedPositions(pr.data))

(***************************************************************************)
(* C18: a reseed that completed with no store error leaves a content and   *)
(* returns a count that are functions of the list alone, the same for      *)
(* every batch size: the records that pass the check, inserted in the      *)
(* order of the list, each with its options and flags.                     *)
(***************************************************************************)
C18_BatchSizeIrrelevant ==
    \A p \in DOMAIN proc :
        LET pr == proc[p]
        IN  Completed(pr)
            => /\ Content(questions, options, RunModule(pr), RunTopic(pr)) = AloneContent(pr)
               /\ pr.result = AloneCount(pr)
               /\ \A a \in pr.origin : \A b \in pr.origin : a[2] < b[2] => a[1] < b[1]

C18_Witness ==
    \E p \in DOMAIN proc :
        LET pr == proc[p]
        IN  /\ Completed(pr)
            /\ pr.script = "importModule"
            /\ pr.batchSize < Len(pr.data)
            /\ pr.batchSize > 1
            /\ pr.batchIndex >= 2
            /\ Cardinality(pr.origin) >= 2

(***************************************************************************)
(* C19: in every state of a reseed, the options of a question it inserted, *)
(* taken in the order of their ids, carry the texts of the source record's *)
(* options from position 0 on, all of them once the reseed has completed   *)
(* with no store error; and the questions' ids follow the order of the     *)
(* list.                                                                   *)
(***************************************************************************)
C19_OptionOrderPreserved ==
    \A p \in DOMAIN proc :
        LET pr == proc[p]
        IN  /\ \A pair \in pr.origin :
                  pair[1] \in Ids(questions)
                  => LET c == pr.data[pair[2]]
                         oc == OptionContent(options, pair[1])
                     IN  /\ Len(oc) <= Len(c.options)
                         /\ \A k \in 1..Len(oc) : oc[k].text = c.options[k]
                         /\ Completed(pr) => Len(oc) = Len(c.options)
            /\ \A a \in pr.origin : \A b \in pr.origin : a[2] < b[2] => a[1] < b[1]

C19_Witness ==
    \E p \in DOMAIN proc :
        LET pr == proc[p]
        IN  /\ Completed(pr)
            /\ pr.script = "importMCQ"
            /\ Cardinality(pr.origin) = 2
            /\ \E pair \in pr.origin :
                  /\ Len(pr.data[pair[2]].options) = 3
                  /\ Len(OptionContent(options, pair[1])) = 3

(***************************************************************************)
(* C21: the questions import-module.js inserts for a documented (module,   *)
(* topic) pair carry exactly that pair as their key, a key that            *)
(* cleanupDatabase holds valid.  Stated as the claim has it; the script    *)
(* does not meet it.                                                       *)
(***************************************************************************)
C21_DocumentedKeyStored ==
    \A p \in DOMAIN proc :
        LET pr == proc[p]
        IN  (pr.script = "importModule" /\ pr.args \in ValidPairs)
            => \A q \in questions :
                  (\E pair \in pr.origin : pair[1] = q.id)
                     => /\ <<q.moduleId, q.topic>> = pr.args
                        /\ q.moduleId \in validModules
                        /\ q.topic \in validTopics

\* the key of the configuration entry at position k
ConfigKey(k) == <<moduleConfig[k].moduleId, moduleConfig[k].topic>>

\* the configured partitions whose source file holds no question
NoSource(k) == Len(fileData[moduleConfig[k].filename]) = 0

(***************************************************************************)
(* C22: importMCQ.ts run with no argument calls processModuleTopic on the  *)
(* entries of moduleConfig one after another in the order of the           *)
(* configuration, each once, and each call works on the module, topic and  *)
(* file of its entry: the rows it inserts carry that key.  A partition     *)
(* with no source is left by a plain return: the script fails only on a    *)
(* store error, and after a skipped partition the loop can take its next   *)
(* turn; the script that ran to its end has visited every entry.           *)
(***************************************************************************)
C22_AllInConfigOrder ==
    \A p \in DOMAIN proc :
        LET pr == proc[p]
        IN  pr.cfg > 0
            => /\ pr.visited = [k \in 1..pr.cfg |-> k]
               /\ <<pr.moduleId, pr.topic>> = ConfigKey(pr.cfg)
               /\ pr.data = fileData[moduleConfig[pr.cfg].filename]
               /\ \A q \in questions :
                     (\E pair \in pr.origin : pair[1] = q.id)
                        => <<q.moduleId, q.topic>> = ConfigKey(pr.cfg)
               /\ pr.pc = "failed" => pr.errors > 0
               /\ (pr.pc = "done" /\ NoSource(pr.cfg) /\ pr.cfg < Len(moduleConfig))
                     => ENABLED MCQ_NextTopic(p)
               /\ (pr.pc = "done" /\ ~ENABLED MCQ_NextTopic(p))
                     => pr.visited = [k \in 1..Len(moduleConfig) |-> k]

\* the loop is over, a partition was skipped for want of a source, and a later
\* partition holds the questions the run inserted
C22_Witness ==
    \E p \in DOMAIN proc :
        LET pr == proc[p]
        IN  /\ pr.cfg = Len(moduleConfig)
            /\ pr.pc = "done"
            /\ \E k, n \in DOMAIN moduleConfig :
                  /\ k < n
                  /\ NoSource(k)
                  /\ \E q \in questions :
                        /\ <<q.moduleId, q.topic>> = ConfigKey(n)
                        /\ q \notin pr.pre.questions

\* the first position of a set of positions (Array.prototype.find)
First(S) == CHOOSE k \in S : \A n \in S : k <= n

\* the configuration entries whose topic is the argument, letter case apart
TopicEntries(a) ==
    {k \in DOMAIN moduleConfig : ToLowerCase(moduleConfig[k].topic) = ToLowerCase(a)}

(***************************************************************************)
(* C23: importMCQ.ts run with one argument that is, letter case apart, a   *)
(* configured topic name works on the configuration entry of that topic:   *)
(* its module, topic and file; nothing is reported as unknown, rows of     *)
(* other partitions stay and every new row carries the entry's key.  The   *)
(* find of import.ts main selects the same entry for each topic name.      *)
(***************************************************************************)
C23_TopicSelectsItsEntry ==
    /\ \A p \in DOMAIN proc :
          LET pr == proc[p]
          IN  (pr.script = "importMCQ" /\ Len(pr.args) = 1 /\ TopicEntries(pr.args[1]) # {})
              => LET k == CHOOSE n \in TopicEntries(pr.args[1]) : TRUE
                 IN  /\ TopicEntries(pr.args[1]) = {k}
                     /\ pr.reported = "none"
                     /\ <<pr.moduleId, pr.topic>> = ConfigKey(k)
                     /\ pr.data = fileData[moduleConfig[k].filename]
                     /\ \A q \in pr.pre.questions :
                           <<q.moduleId, q.topic>> # ConfigKey(k) => q \in questions
                     /\ \A o \in pr.pre.options :
                           (\E q \in pr.pre.questions :
                               q.id = o.questionId /\ <<q.moduleId, q.topic>> # ConfigKey(k))
                              => o \in options
                     /\ \A q \in questions \ pr.pre.questions :
                           <<q.moduleId, q.topic>> = ConfigKey(k)
    /\ \A k \in DOMAIN moduleConfig :
          LET t == ToLowerCase(moduleConfig[k].topic)
          IN  ImportMatching(t) # {} /\ First(ImportMatching(t)) = k

\* a reseed by topic name of the last entry has replaced the
\* rows of its partition and left those of another partition
C23_Witness ==
    \E p \in DOMAIN proc :
        LET pr == proc[p]
        IN  /\ pr.script = "importMCQ"
            /\ pr.args = <<"Anatomy">>
            /\ pr.pc = "done"
            /\ \E q \in questions \ pr.pre.questions : q.topic = "Anatomy"
            /\ \E q \in pr.pre.questions : q.topic = "Anatomy" /\ q \notin questions
            /\ \E q \in pr.pre.questions : q.topic # "Anatomy" /\ q \in questions

\* the questions the partition of run pr held when the run started, and their options
OldQuestions(pr) == PartitionQuestions(pr.pre.questions, RunModule(pr), RunTopic(pr))

OldOptions(pr) == {o \in pr.pre.options : o.questionId \in Ids(OldQuestions(pr))}

\* a question run pr inserted is in the store
SomeInserted(pr) == \E pair \in pr.origin : pair[1] \in Ids(questions)

(***************************************************************************)
(* C24: in a reseed by importMCQ.ts or by the direct import, when the      *)
(* delete of the partition's questions is issued no option of the          *)
(* partition is left; while an old question is gone every old option is    *)
(* gone; while a question the run inserted is in the store no old question *)
(* and no old option is; and in no state does an option point at a         *)
(* question that is not in the store.                                      *)
(***************************************************************************)
C24_DeleteOrder ==
    /\ NoDanglingOption
    /\ \A p \in DOMAIN proc :
          LET pr == proc[p]
          IN  pr.script \in {"importMCQ", "directImport"}
              => /\ pr.pc \in {"delQs", "dDelQs"}
                       => \A o \in options : o.questionId \notin Ids(RunPartition(pr))
                 /\ OldQuestions(pr) \ questions # {} => OldOptions(pr) \cap options = {}
                 /\ SomeInserted(pr)
                       => /\ OldQuestions(pr) \cap questions = {}
                          /\ OldOptions(pr) \cap options = {}

\* the run has deleted the old options and questions of its partition and a
\* question it inserted is in the store with an option
C24_Witness ==
    \E p \in DOMAIN proc :
        LET pr == proc[p]
        IN  /\ pr.script \in {"importMCQ", "directImport"}
            /\ OldQuestions(pr) # {}
            /\ OldOptions(pr) # {}
            /\ \E pair \in pr.origin : \E o \in options : o.questionId = pair[1]

(***************************************************************************)
(* C25: importQuestions of import-module.js.  The delete is committed      *)
(* before any insert: while the batches are worked on, the open            *)
(* transaction holds no delete, and once a question was inserted the old   *)
(* rows of the partition are gone for good.  When an insert of batch k     *)
(* fails, the run ends with the error, having rolled back, and the         *)
(* partition holds the accepted records of the batches before k and        *)
(* nothing else: no row of batch k, no row of a later batch, no old row.   *)
(***************************************************************************)
C25_BatchRollback ==
    \A p \in DOMAIN proc :
        LET pr == proc[p]
            before == {k \in AcceptedPositions(pr.data) : k <= ModStart(pr)}
        IN  pr.script = "importModule"
            => /\ pr.pc \in {"batch", "record", "insOpts"}
                     => pr.tx.delQ = {} /\ pr.tx.delO = {}
               /\ pr.origin # {}
                     => /\ OldQuestions(pr) \cap questions = {}
                        /\ OldOptions(pr) \cap options = {}
               /\ (Ended(pr) /\ pr.failedAt # {})
                     => /\ pr.pc = "failed"
                        /\ pr.rolledBack
                        /\ Cardinality(pr.failedAt) = 1
                        /\ \A k \in pr.failedAt : k > ModStart(pr) /\ k <= ModStart(pr) + pr.batchSize
                        /\ \A pair \in pr.origin : pair[2] <= SetMin(pr.failedAt)
                        /\ Content(questions, options, RunModule(pr), RunTopic(pr))
                              = ListContent(pr.data, before)

\* an insert of the second batch failed after a question of that batch was
\* inserted: the first batch's question is in the store, that one is not
C25_Witness ==
    \E p \in DOMAIN proc :
        LET pr == proc[p]
        IN  /\ pr.script = "importModule"
            /\ pr.pc = "failed"
            /\ pr.failedAt # {}
            /\ pr.batchIndex >= 1
            /\ \E pair \in pr.origin : pair[2] <= ModStart(pr) /\ pair[1] \in Ids(questions)
            /\ \E pair \in pr.origin : pair[2] > ModStart(pr) /\ pair[1] \notin Ids(questions)

(***************************************************************************)
(* C26: a run of importMCQ.ts or import-module.js whose source yields no   *)
(* candidate (the file is missing, cannot be loaded or holds an empty      *)
(* array: an empty list) deletes nothing and inserts nothing: in each of   *)
(* its states the store holds the rows it held when the run started.       *)
(***************************************************************************)
C26_NoSourceNoChange ==
    \A p \in DOMAIN proc :
        LET pr == proc[p]
        IN  (/\ pr.script \in {"importMCQ", "importModule"}
             /\ pr.moduleId # ""
             /\ \A f \in Files : fileData[f] = <<>>)
            => /\ questions = pr.pre.questions
               /\ options = pr.pre.options
               /\ attempts = pr.pre.attempts
               /\ pr.origin = {}
               /\ pr.existing = <<>>
               /\ ~pr.tx.active

\* a run on a partition that holds rows has ended with no candidate
C26_Witness ==
    \E p \in DOMAIN proc :
        LET pr == proc[p]
        IN  /\ pr.script \in {"importMCQ", "importModule"}
            /\ pr.moduleId # ""
            /\ fileData[moduleConfig[1].filename] = <<>>
            /\ Ended(pr)
            /\ OldQuestions(pr) # {}
            /\ OldOptions(pr) # {}

\* the ids of the questions cleanup run pr classified as invalid
Classified(pr) == {pr.existing[k] : k \in DOMAIN pr.existing}

(***************************************************************************)
(* C27: cleanupDatabase inserts nothing, and a row that is gone since the  *)
(* run started is a question the run classified as invalid, an option of   *)
(* such a question, or an attempt on such a question or on one of its      *)
(* options; every other row is in the store unchanged.  A run that         *)
(* classified no question as invalid has deleted nothing.                  *)
(***************************************************************************)
C27_CleanupFrame ==
    \A p \in DOMAIN proc :
        LET pr == proc[p]
            bad == Classified(pr)
            badOptions == Ids({o \in pr.pre.options : o.questionId \in bad})
        IN  pr.script = "cleanup"
            => /\ questions \subseteq pr.pre.questions
               /\ options \subseteq pr.pre.options
               /\ attempts \subseteq pr.pre.attempts
               /\ \A q \in pr.pre.questions \ questions : q.id \in bad
               /\ \A o \in pr.pre.options \ options : o.questionId \in bad
               /\ \A a \in pr.pre.attempts \ attempts :
                     a.questionId \in bad \/ a.selectedOptionId \in badOptions
               /\ bad = {} => /\ questions = pr.pre.questions
                              /\ options = pr.pre.options
                              /\ attempts = pr.pre.attempts

\* a cleanup has ended after deleting a question; a question it kept still
\* has its options and its attempt
C27_Witness ==
    \E p \in DOMAIN proc :
        LET pr == proc[p]
        IN  /\ pr.script = "cleanup"
            /\ pr.pc = "done"
            /\ pr.pre.questions \ questions # {}
            /\ pr.pre.attempts \ attempts # {}
            /\ \E q \in questions :
                  /\ \E o \in options : o.questionId = q.id
                  /\ \E a \in attempts : a.questionId = q.id

\* runs pr and rr reseed the same partition from the same list
SameReseed(pr, rr) ==
    /\ <<RunModule(pr), RunTopic(pr)>> = <<RunModule(rr), RunTopic(rr)>>
    /\ pr.data = rr.data

(***************************************************************************)
(* C28: two reseeds of the same partition from the same list that both     *)
(* ended with no store error leave the partition with the accepted records *)
(* of the list, one question each, however their steps interleaved.        *)
(* Stated as the claim has it.                                             *)
(***************************************************************************)
C28_SamePartitionInterleaved ==
    \A p \in DOMAIN proc : \A r \in DOMAIN proc :
        LET pr == proc[p]
            rr == proc[r]
        IN  (p # r /\ Completed(pr) /\ Completed(rr) /\ SameReseed(pr, rr))
            => Content(questions, options, RunModule(pr), RunTopic(pr)) = AloneContent(pr)

(***************************************************************************)
(* C28, amended: two reseeds of the same partition from the same list, the *)
(* second started after the first had ended, both with no store error,     *)
(* leave the partition with the accepted records of the list, one          *)
(* question each.                                                          *)
(***************************************************************************)
C28_SamePartitionSerial ==
    \A p \in DOMAIN proc : \A r \in DOMAIN proc :
        LET pr == proc[p]
            rr == proc[r]
        IN  (p # r /\ Completed(pr) /\ Completed(rr) /\ SameReseed(pr, rr) /\ p \in rr.after)
            => Content(questions, options, RunModule(rr), RunTopic(rr)) = AloneContent(rr)

\* the second reseed of a partition has ended after deleting the questions
\* the first one had inserted
C28_Witness ==
    \E p \in DOMAIN proc : \E r \in DOMAIN proc :
        LET pr == proc[p]
            rr == proc[r]
        IN  /\ p # r /\ Completed(pr) /\ Completed(rr) /\ SameReseed(pr, rr)
            /\ p \in rr.after
            /\ pr.origin # {}
            /\ \A pair \in pr.origin : pair[1] \notin Ids(questions)
            /\ \E pair \in rr.origin : pair[1] \in Ids(questions)

\* the positions of log at which statement op took effect
Effective(log, ops) == {i \in DOMAIN log : log[i][1] \in ops /\ log[i][2]}

\* the positions after i at which the transaction begun at i was closed: a
\* COMMIT or ROLLBACK that took effect, with no BEGIN issued in between
Closes(log, i) ==
    {j \in Effective(log, {"COMMIT", "ROLLBACK"}) :
        /\ j > i
        /\ \A k \in DOMAIN log : (i < k /\ k < j) => log[k][1] # "BEGIN"}

C30_LoadOncePerSuccess ==
    /\ \A t \in LoaderTopics :
          /\ dataCache[t].has <=> loaderCalls[t].succeeded > 0
          /\ loaderCalls[t].succeeded > 0 => loaderCalls[t].invoked = loaderCalls[t].atSuccess
          /\ dataCache[t].has => dataCache[t].list = fileData[mcqFiles[t]]
          /\ t \notin DOMAIN mcqFiles => loaderCalls[t].invoked = 0
    /\ \A p \in DOMAIN proc :
          LET pr == proc[p]
          IN  pr.script = "loadTopicData"
              => /\ pr.how = "cached"
                       => dataCache[pr.topic].has /\ pr.data = dataCache[pr.topic].list
                 /\ pr.how \in {"failed", "noLoader"} => pr.data = <<>>
                 /\ pr.how = "noLoader" <=> (pr.topic \notin DOMAIN mcqFiles)
                 /\ (pr.pc = "done" /\ pr.topic \in DOMAIN mcqFiles /\ ~dataCache[pr.topic].has)
                       => pr.how = "failed"

\* the loader of a topic was invoked twice and has succeeded once, and a call
\* after that has returned the list from the cache
C30_Witness ==
    \E t \in LoaderTopics :
        /\ loaderCalls[t].invoked = 2
        /\ loaderCalls[t].succeeded = 1
        /\ dataCache[t].list # <<>>
        /\ \E p \in DOMAIN proc :
              proc[p].topic = t /\ proc[p].how = "cached" /\ proc[p].data = dataCache[t].list

====
